---- MODULE Spec2Model ----
(***************************************************************************)
(* Verification model of the FORGE dispatch core:                          *)
(*   backend/app/services/assignment_service.py   (worker scoring/ranking) *)
(*   backend/app/services/optimization_service.py (routes of one worker    *)
(*                                                 and of a fleet)         *)
(*                                                                         *)
(* Numbers.  Python floats are modelled in two layers.                     *)
(*  - The transcendental part of the haversine formula is evaluated in an  *)
(*    8-significant-digit decimal floating point ([m, e] = m * 10^e) with  *)
(*    power series for sin, cos, asin and Newton's iteration for sqrt.     *)
(*    Its result is delivered in whole metres (1/1000 km).                 *)
(*  - Everything downstream of the distance (scores, travel time) is exact *)
(*    rational arithmetic ([n, d] = n / d); round(x, k) is Python's        *)
(*    round-half-even applied to the exact value.                          *)
(* Fixed-point units of the inputs and outputs:                            *)
(*    coordinates        micro-degrees      (30.2672 deg = 30267200)       *)
(*    performance_rating hundredths         (4.8 = 480)                    *)
(*    first_time_fix_rate hundredths        (0.92 = 92)                    *)
(*    *_score            thousandths        (round(x, 3))                  *)
(*    travel_distance_km hundredths of km   (round(x, 2))                  *)
(*    travel_time_minutes tenths of minutes (round(x, 1))                  *)
(***************************************************************************)
EXTENDS Integers, Sequences, FiniteSets, TLC

\* Python's None for an optional (nullable) number.  Valid coordinates are
\* within +-180 000 000 micro-degrees, so the value cannot clash with one.
None == -999999999

Abs(x) == IF x < 0 THEN -x ELSE x

Sgn(x) == IF x < 0 THEN -1 ELSE IF x > 0 THEN 1 ELSE 0

Min2(a, b) == IF a <= b THEN a ELSE b

Max2(a, b) == IF a >= b THEN a ELSE b

RECURSIVE Gcd(_, _)
Gcd(a, b) == IF b = 0 THEN Abs(a) ELSE Gcd(b, a % b)

\* Nearest integer to n / d (d > 0), ties to the even neighbour: the rule of
\* Python's round().
RoundHalfEven(n, d) ==
    LET q == n \div d
        r == n % d
    IN  IF 2 * r < d THEN q
        ELSE IF 2 * r > d THEN q + 1
        ELSE IF q % 2 = 0 THEN q ELSE q + 1

(***************************************************************************)
(* Decimal floating point, 8 significant digits: the value of [m, e] is    *)
(* m * 10^e, normalised to 10^7 <= |m| < 10^8 (or m = 0, e = 0).           *)
(***************************************************************************)
FLo == 10^7

FHi == 10^8

FZero == [m |-> 0, e |-> 0]

RECURSIVE FNorm(_, _)
FNorm(m, e) ==
    IF m = 0 THEN FZero
    ELSE IF Abs(m) >= FHi
         THEN FNorm(Sgn(m) * ((Abs(m) + 5) \div 10), e + 1)
    ELSE IF Abs(m) < FLo
         THEN FNorm(m * 10, e - 1)
    ELSE [m |-> m, e |-> e]

FromInt(n) == FNorm(n, 0)

FNeg(a) == [m |-> -a.m, e |-> a.e]

FMul(a, b) ==
    LET x  == Abs(a.m)
        y  == Abs(b.m)
        xh == x \div 10000
        xl == x % 10000
        yh == y \div 10000
        yl == y % 10000
        cross == xh * yl + xl * yh
        \* x * y / 10^7, the 8 to 9 leading digits of the 16-digit product
        q  == xh * yh * 10 + cross \div 1000
              + ((cross % 1000) * 10000 + xl * yl) \div 10000000
    IN  FNorm(Sgn(a.m) * Sgn(b.m) * q, a.e + b.e + 7)

FAdd(a, b) ==
    IF a.m = 0 THEN b
    ELSE IF b.m = 0 THEN a
    ELSE LET hi == IF a.e >= b.e THEN a ELSE b
             lo == IF a.e >= b.e THEN b ELSE a
             k  == hi.e - lo.e
         IN  IF k > 9 THEN hi
             ELSE FNorm(hi.m * 10 + Sgn(lo.m) * ((Abs(lo.m) * 10) \div 10^k),
                        hi.e - 1)

FSub(a, b) == FAdd(a, FNeg(b))

RECURSIVE LongDiv(_, _, _, _)
LongDiv(rem, d, q, k) ==
    IF k = 0 THEN q
    ELSE LongDiv((rem % d) * 10, d, q * 10 + rem \div d, k - 1)

\* a / b for b # 0: nine quotient digits by long division.
FDiv(a, b) ==
    FNorm(Sgn(a.m) * Sgn(b.m) * LongDiv(Abs(a.m), Abs(b.m), 0, 9),
          a.e - b.e - 8)

FLess(a, b) == FSub(a, b).m < 0

\* TRUE when t no longer changes an 8-digit sum s
FNegligible(t, s) == t.m = 0 \/ (s.m # 0 /\ t.e + 10 < s.e)

\* Nearest integer to x * 10^k (half away from zero), for |x * 10^k| < 10^9
FToFixed(x, k) ==
    LET sh == x.e + k
    IN  IF x.m = 0 THEN 0
        ELSE IF sh >= 0 THEN x.m * 10^sh
        ELSE IF sh < -9 THEN 0
        ELSE Sgn(x.m) * ((Abs(x.m) + (10^(-sh)) \div 2) \div 10^(-sh))

(***************************************************************************)
(* math.sin, math.cos, math.asin, math.sqrt on the decimal floats.  The    *)
(* series are summed until a term no longer changes the sum; they are      *)
(* accurate for |x| <= pi (sin, cos) and |x| <= 1/2 (asin), which covers   *)
(* every pair of points less than 6000 km apart.                           *)
(***************************************************************************)
RECURSIVE SeriesSinCos(_, _, _, _)
\* sum + term + ..., next term = -term * x2 / ((k + 1) * (k + 2))
SeriesSinCos(x2, sum, term, k) ==
    IF FNegligible(term, sum) \/ k > 40 THEN sum
    ELSE LET next == FNeg(FDiv(FMul(term, x2), FromInt((k + 1) * (k + 2))))
         IN  SeriesSinCos(x2, FAdd(sum, term), next, k + 2)

Sin(x) == SeriesSinCos(FMul(x, x), FZero, x, 1)

Cos(x) == SeriesSinCos(FMul(x, x), FZero, FromInt(1), 0)

RECURSIVE SeriesAsin(_, _, _, _)
\* asin x = sum over n of p_n / (2n + 1), p_0 = x,
\* p_(n+1) = p_n * x^2 * (2n + 1) / (2n + 2)
SeriesAsin(x2, sum, p, n) ==
    LET term == FDiv(p, FromInt(2 * n + 1))
    IN  IF FNegligible(term, sum) \/ n > 60 THEN sum
        ELSE SeriesAsin(x2, FAdd(sum, term),
                        FDiv(FMul(FMul(p, x2), FromInt(2 * n + 1)),
                             FromInt(2 * n + 2)),
                        n + 1)

Asin(x) == SeriesAsin(FMul(x, x), FZero, x, 0)

RECURSIVE ISqrt(_, _)
\* floor(sqrt(n)) by Newton's iteration from a guess g >= sqrt(n)
ISqrt(n, g) ==
    LET h == (g + n \div g) \div 2
    IN  IF h >= g THEN g ELSE ISqrt(n, h)

RECURSIVE NewtonSqrt(_, _, _)
NewtonSqrt(x, y, k) ==
    IF k = 0 THEN y
    ELSE NewtonSqrt(x, FDiv(FAdd(y, FDiv(x, y)), FromInt(2)), k - 1)

\* sqrt x for x >= 0
Sqrt(x) ==
    IF x.m <= 0 THEN FZero
    ELSE LET odd == x.e % 2 # 0
             m2  == IF odd THEN x.m * 10 ELSE x.m
             e2  == IF odd THEN x.e - 1 ELSE x.e
         IN  NewtonSqrt(x, FNorm(ISqrt(m2, 31623), e2 \div 2), 3)

\* A coordinate in micro-degrees as a float in degrees
Degrees(u) == FNorm(u, -6)

\* math.radians: x * (pi / 180), pi / 180 = 0.017453292519943295
Radians(x) == FMul(x, [m |-> 17453293, e |-> -9])

(***************************************************************************)
(* OptimizationService._haversine / utils.scoring.haversine_distance /     *)
(* the body of AssignmentService._haversine_distance: great-circle         *)
(* distance of two points given in micro-degrees, as a float in km.        *)
(***************************************************************************)
HaversineKm(lat1d, lng1d, lat2d, lng2d) ==
    LET R    == FromInt(6371)
        lat1 == Radians(Degrees(lat1d))
        lng1 == Radians(Degrees(lng1d))
        lat2 == Radians(Degrees(lat2d))
        lng2 == Radians(Degrees(lng2d))
        dlat == FSub(lat2, lat1)
        dlng == FSub(lng2, lng1)
        sdlat == Sin(FDiv(dlat, FromInt(2)))
        sdlng == Sin(FDiv(dlng, FromInt(2)))
        a    == FAdd(FMul(sdlat, sdlat),
                     FMul(FMul(Cos(lat1), Cos(lat2)), FMul(sdlng, sdlng)))
        c    == FMul(FromInt(2), Asin(Sqrt(a)))
    IN  FMul(R, c)

\* The distance in whole metres, the resolution at which the model carries
\* distances (a float64 carries about 10^-11 m at these magnitudes).
Metres(km) == FToFixed(km, 3)

\* The service site of the ticket (600 Congress Ave, Austin) and worker
\* positions around it: <<lat, lng>> in micro-degrees
Site == <<30267200, -97743100>>

Near == <<30295000, -97750000>>

\* 100.000 km north of Site
AtRadius == <<31166520, -97743100>>

\* 100.002 km north of Site
PastRadius == <<31166540, -97743100>>

\* San Antonio, 118 km from Site
Far == <<29424100, -98493600>>

\* Customer sites and a second worker position in Austin (seed data); no
\* distance or time of a route among them lies within a metre of the place
\* where its rounding turns
Medical == <<30278500, -97726000>>

FoodBank == <<30205000, -97742000>>

LoneStar == <<30358000, -97737000>>

South == <<30234000, -97770000>>

\* The positions calls are made with
Places ==
    {Site, Near, AtRadius, PastRadius, Far, Medical, FoodBank, LoneStar, South}

\* The distances between the Places, evaluated once
PlaceDistance ==
    [p \in Places, q \in Places |->
        Metres(HaversineKm(p[1], p[2], q[1], q[2]))]

\* The great-circle distance in metres of two of the Places: the haversine
\* of the two points, looked up where it was evaluated
HaversineMetres(lat1, lng1, lat2, lng2) ==
    PlaceDistance[<<lat1, lng1>>, <<lat2, lng2>>]

(***************************************************************************)
(* Exact rationals [n, d], d > 0, in lowest terms.                         *)
(***************************************************************************)
Rat(n, d) ==
    LET g == Gcd(n, d)
    IN  [n |-> Sgn(d) * (n \div g), d |-> Abs(d) \div g]

RAdd(a, b) ==
    LET l == (a.d \div Gcd(a.d, b.d)) * b.d
    IN  Rat(a.n * (l \div a.d) + b.n * (l \div b.d), l)

RSub(a, b) == RAdd(a, [n |-> -b.n, d |-> b.d])

RMul(a, b) ==
    LET g1 == Gcd(a.n, b.d)
        g2 == Gcd(b.n, a.d)
    IN  IF a.n = 0 \/ b.n = 0 THEN [n |-> 0, d |-> 1]
        ELSE Rat((a.n \div g1) * (b.n \div g2), (a.d \div g2) * (b.d \div g1))

\* a / b for b # 0
RDiv(a, b) == RMul(a, Rat(b.d, b.n))

RLess(a, b) == RSub(a, b).n < 0

\* Python's min(a, b) and max(a, b): the first argument unless the second
\* is strictly smaller (larger)
RMin(a, b) == IF RLess(b, a) THEN b ELSE a

RMax(a, b) == IF RLess(a, b) THEN b ELSE a

\* Python's round(x, k) in units of 10^-k
Round(x, k) ==
    LET g == Gcd(10^k, x.d)
    IN  RoundHalfEven(x.n * (10^k \div g), x.d \div g)

(***************************************************************************)
(* AssignmentService                                                       *)
(***************************************************************************)
\* WEIGHTS, in hundredths
WeightSkillMatch == 40

WeightProximity == 30

WeightAvailability == 20

WeightPerformance == 10

\* MAX_DISTANCE_KM and AVG_SPEED_KMH
MAX_DISTANCE_KM == 100

AVG_SPEED_KMH == 40

\* Mutant: the bonuses ten times as large (0.5, 1.0, 1.5)
LevelBonus_Tenfold(level) ==
    CASE level = "junior"       -> Rat(0, 1)
      [] level = "intermediate" -> Rat(50, 100)
      [] level = "senior"       -> Rat(100, 100)
      [] level = "expert"       -> Rat(150, 100)
      [] OTHER                  -> Rat(0, 1)

\* level_bonus.get(worker.skill_level, 0)
LevelBonus(level) ==
    CASE level = "junior"       -> Rat(0, 1)
      [] level = "intermediate" -> Rat(5, 100)
      [] level = "senior"       -> Rat(10, 100)
      [] level = "expert"       -> Rat(15, 100)
      [] OTHER                  -> Rat(0, 1)

\* Mutant: an unknown position counted as distance 0
HaversineDistance_UnknownIsZero(lat1, lng1, lat2, lng2) ==
    IF \E v \in {lat1, lng1, lat2, lng2} : v = None THEN 0
    ELSE HaversineMetres(lat1, lng1, lat2, lng2)

\* _haversine_distance: None when a coordinate is None, else the distance
\* (in metres)
HaversineDistance(lat1, lng1, lat2, lng2) ==
    IF \E v \in {lat1, lng1, lat2, lng2} : v = None THEN None
    ELSE HaversineMetres(lat1, lng1, lat2, lng2)

\* Mutant: true Jaccard similarity, |R & S| / |R | S|
SkillMatch_Jaccard(t, w) ==
    LET matching == t.skills_required \cap w.skills
        base == IF t.skills_required # {}
                THEN Rat(Cardinality(matching),
                         Cardinality(t.skills_required \cup w.skills))
                ELSE Rat(1, 1)
    IN  [skill_score     |-> RMin(Rat(1, 1), RAdd(base, LevelBonus(w.skill_level))),
         matching_skills |-> IF t.skills_required # {} THEN matching
                             ELSE w.skills,
         missing_skills  |-> t.skills_required \ w.skills]

\* Mutant: the level bonus added without the clamp to 1.0
SkillMatch_NoClamp(t, w) ==
    LET matching == t.skills_required \cap w.skills
        base == IF t.skills_required # {}
                THEN Rat(Cardinality(matching), Cardinality(t.skills_required))
                ELSE Rat(1, 1)
    IN  [skill_score     |-> RAdd(base, LevelBonus(w.skill_level)),
         matching_skills |-> IF t.skills_required # {} THEN matching
                             ELSE w.skills,
         missing_skills  |-> t.skills_required \ w.skills]

\* The skill part of _score_worker (lines 48-64)
SkillMatch(t, w) ==
    LET required_skills == t.skills_required
        worker_skills   == w.skills
        matching        == required_skills \cap worker_skills
        base == IF required_skills # {}
                THEN Rat(Cardinality(matching), Cardinality(required_skills))
                ELSE Rat(1, 1)
    IN  [skill_score     |-> RMin(Rat(1, 1), RAdd(base, LevelBonus(w.skill_level))),
         matching_skills |-> IF required_skills # {} THEN matching
                             ELSE worker_skills,
         missing_skills  |-> IF required_skills # {}
                             THEN required_skills \ worker_skills
                             ELSE {}]

\* Mutant: the rating not normalised from 0-5 to 0-1
PerformanceScore_Unnormalised(w) ==
    RAdd(RMul(Rat(w.performance_rating, 100), Rat(6, 10)),
         RMul(Rat(w.first_time_fix_rate, 100), Rat(4, 10)))

\* performance_score (line 90)
PerformanceScore(w) ==
    RAdd(RMul(RDiv(Rat(w.performance_rating, 100), Rat(5, 1)), Rat(6, 10)),
         RMul(Rat(w.first_time_fix_rate, 100), Rat(4, 10)))

\* Mutant: the weights of skill match and proximity exchanged
Overall_SwappedWeights(skill_score, proximity_score, availability_score, performance_score) ==
    RAdd(RAdd(RAdd(RMul(Rat(WeightProximity, 100), skill_score),
                   RMul(Rat(WeightSkillMatch, 100), proximity_score)),
              RMul(Rat(WeightAvailability, 100), availability_score)),
         RMul(Rat(WeightPerformance, 100), performance_score))

\* overall (lines 93-98)
Overall(skill_score, proximity_score, availability_score, performance_score) ==
    RAdd(RAdd(RAdd(RMul(Rat(WeightSkillMatch, 100), skill_score),
                   RMul(Rat(WeightProximity, 100), proximity_score)),
              RMul(Rat(WeightAvailability, 100), availability_score)),
         RMul(Rat(WeightPerformance, 100), performance_score))

\* Mutant: a worker whose daily cap is 0 has no availability
AvailabilityScore_CapAware(w) ==
    IF w.max_tickets_per_day > 0 THEN Rat(1, 1) ELSE Rat(0, 1)

\* availability_score (lines 83-87): 1.0 on both paths
AvailabilityScore(w) ==
    IF w.max_tickets_per_day > 0 THEN Rat(1, 1) ELSE Rat(1, 1)

\* proximity_score of a known distance of dist metres (line 78)
ProximityScore(dist) ==
    RMax(Rat(0, 1),
         RSub(Rat(1, 1), RDiv(Rat(dist, 1000), Rat(MAX_DISTANCE_KM, 1))))

\* Mutant: a far worker is penalised (proximity 0), not excluded
TooFar_Never(dist) == FALSE

\* Mutant: >= in place of >
TooFar_Inclusive(dist) == dist >= MAX_DISTANCE_KM * 1000

\* line 75: travel_distance > self.MAX_DISTANCE_KM
TooFar(dist) == dist > MAX_DISTANCE_KM * 1000

\* Mutant: travel at 50 km/h
TravelTime_FiftyKmh(km) == RMul(RDiv(km, Rat(50, 1)), Rat(60, 1))

\* travel_time (line 80) of a distance in km
TravelTime(km) == RMul(RDiv(km, Rat(AVG_SPEED_KMH, 1)), Rat(60, 1))

\* Mutant: "if not travel_distance" in place of "is None" (line 72), so that
\* a distance of 0.0 counts as unknown
ScoreWorker_FalsyDistance(t, w) ==
    LET sk   == SkillMatch(t, w)
        dist == HaversineDistance(t.location_lat, t.location_lng,
                                  w.current_lat, w.current_lng)
        unknown == dist = None \/ dist = 0
        proximity_score == IF unknown THEN Rat(5, 10)
                           ELSE ProximityScore(dist)
        travel_distance == IF unknown THEN Rat(20, 1)
                           ELSE Rat(dist, 1000)
        travel_time        == TravelTime(travel_distance)
        availability_score == AvailabilityScore(w)
        performance_score  == PerformanceScore(w)
        overall == Overall(sk.skill_score, proximity_score,
                           availability_score, performance_score)
    IN  IF ~unknown /\ TooFar(dist) THEN << >>
        ELSE << [worker_id           |-> w.id,
                 skill_match_score   |-> Round(sk.skill_score, 3),
                 proximity_score     |-> Round(proximity_score, 3),
                 availability_score  |-> Round(availability_score, 3),
                 performance_score   |-> Round(performance_score, 3),
                 overall_score       |-> Round(overall, 3),
                 travel_distance_km  |-> Round(travel_distance, 2),
                 travel_time_minutes |-> Round(travel_time, 1),
                 matching_skills     |-> sk.matching_skills,
                 missing_skills      |-> sk.missing_skills] >>

\* _score_worker: <<>> for None, else <<the WorkerScore>>
ScoreWorker(t, w) ==
    LET sk   == SkillMatch(t, w)
        dist == HaversineDistance(t.location_lat, t.location_lng,
                                  w.current_lat, w.current_lng)
        proximity_score == IF dist = None THEN Rat(5, 10)
                           ELSE ProximityScore(dist)
        travel_distance == IF dist = None THEN Rat(20, 1)
                           ELSE Rat(dist, 1000)
        travel_time        == TravelTime(travel_distance)
        availability_score == AvailabilityScore(w)
        performance_score  == PerformanceScore(w)
        overall == Overall(sk.skill_score, proximity_score,
                           availability_score, performance_score)
    IN  IF dist # None /\ TooFar(dist) THEN << >>
        ELSE << [worker_id           |-> w.id,
                 skill_match_score   |-> Round(sk.skill_score, 3),
                 proximity_score     |-> Round(proximity_score, 3),
                 availability_score  |-> Round(availability_score, 3),
                 performance_score   |-> Round(performance_score, 3),
                 overall_score       |-> Round(overall, 3),
                 travel_distance_km  |-> Round(travel_distance, 2),
                 travel_time_minutes |-> Round(travel_time, 1),
                 matching_skills     |-> sk.matching_skills,
                 missing_skills      |-> sk.missing_skills] >>

\* Mutant: the active flag not consulted
Eligible_StatusOnly(w) == w.availability_status = "available"

\* line 37: the worker is scored at all
Eligible(w) == ~(w.availability_status # "available" \/ ~w.active)

RECURSIVE ScoreLoop(_, _, _)
\* lines 35-41: the scores of ws[i..], in input order
ScoreLoop(t, ws, i) ==
    IF i > Len(ws) THEN << >>
    ELSE (IF Eligible(ws[i]) THEN ScoreWorker(t, ws[i]) ELSE << >>)
         \o ScoreLoop(t, ws, i + 1)

Reverse(s) == [i \in 1..Len(s) |-> s[Len(s) + 1 - i]]

\* s with x put after every element whose key is <= x's: one step of a stable
\* ascending insertion sort
InsertAsc(s, x) ==
    LET k == Cardinality({i \in 1..Len(s) : s[i].overall_score <= x.overall_score})
    IN  SubSeq(s, 1, k) \o <<x>> \o SubSeq(s, k + 1, Len(s))

RECURSIVE SortAsc(_, _)
\* the stable ascending sort of s[1..n] by overall_score
SortAsc(s, n) ==
    IF n = 0 THEN << >> ELSE InsertAsc(SortAsc(s, n - 1), s[n])

\* Mutant: reverse=True forgotten
SortScores_Ascending(s) == SortAsc(s, Len(s))

\* Mutant: sorted ascending and then reversed, which turns ties around
SortScores_Unstable(s) == Reverse(SortAsc(s, Len(s)))

\* list.sort(key=lambda s: s.overall_score, reverse=True): CPython reverses
\* the list, sorts it stably in ascending key order and reverses it again
SortScores(s) == Reverse(SortAsc(Reverse(s), Len(s)))

\* rank_workers
RankWorkersResult(t, ws) == SortScores(ScoreLoop(t, ws, 1))

(***************************************************************************)
(* The inputs of a call: ticket and worker snapshots                       *)
(***************************************************************************)
\* Largest length of the list of workers of one call
MaxWorkers == 3

TicketSkillSets ==
    { {}, {"Plumbing"}, {"HVAC Repair", "Electrical"},
      {"HVAC Repair", "Electrical", "Plumbing"} }

TicketPositions ==
    { Site, <<None, Site[2]>>, <<Site[1], None>>, <<None, None>> }

Tickets ==
    { [skills_required |-> r, location_lat |-> p[1], location_lng |-> p[2]] :
        r \in TicketSkillSets, p \in TicketPositions }

WorkerSkillSets ==
    { {}, {"Electrical"}, {"Plumbing", "Electrical"},
      {"HVAC Repair", "Electrical", "Plumbing", "Ductwork"} }

SkillLevels == {"junior", "intermediate", "senior", "expert", "apprentice"}

WorkerPositions ==
    { Site, Near, AtRadius, PastRadius, Far, <<None, None>>, <<Near[1], None>> }

\* <<availability_status, active>>
Eligibilities ==
    { <<"available", TRUE>>, <<"busy", TRUE>>, <<"available", FALSE>> }

\* <<performance_rating, first_time_fix_rate>> in hundredths
Performances == { <<0, 0>>, <<480, 92>>, <<500, 100>> }

DailyCaps == {0, 8}

Profile(sk, lv, p, el, pf, cap) ==
    [skills |-> sk, skill_level |-> lv, current_lat |-> p[1],
     current_lng |-> p[2], availability_status |-> el[1], active |-> el[2],
     performance_rating |-> pf[1], first_time_fix_rate |-> pf[2],
     max_tickets_per_day |-> cap]

\* Every combination of the attribute values above
Profiles ==
    { Profile(sk, lv, p, el, pf, cap) :
        sk \in WorkerSkillSets, lv \in SkillLevels, p \in WorkerPositions,
        el \in Eligibilities, pf \in Performances, cap \in DailyCaps }

\* The profiles that lists of several workers are made of.  The second and
\* third trade 0.05 of skill score for 0.2 of performance score, so that they
\* tie on overall score with different sub-scores whenever they match the
\* same fraction of the required skills below the clamp.
Pool ==
    { Profile({"Plumbing", "Electrical"}, "intermediate", Near,
              <<"available", TRUE>>, <<480, 92>>, 8),
      Profile({"Electrical"}, "intermediate", Near,
              <<"available", TRUE>>, <<400, 50>>, 8),
      Profile({"Electrical"}, "junior", Near,
              <<"available", TRUE>>, <<400, 100>>, 6),
      Profile({"HVAC Repair", "Electrical", "Plumbing", "Ductwork"}, "senior",
              Site, <<"available", TRUE>>, <<500, 100>>, 8),
      Profile({"Plumbing", "Electrical"}, "intermediate", <<None, None>>,
              <<"available", TRUE>>, <<0, 0>>, 0),
      Profile({"Electrical"}, "expert", Near,
              <<"available", TRUE>>, <<480, 92>>, 8),
      Profile({"Plumbing", "Electrical"}, "intermediate", Far,
              <<"available", TRUE>>, <<480, 92>>, 8),
      Profile({"Plumbing", "Electrical"}, "expert", Near,
              <<"busy", TRUE>>, <<480, 92>>, 8),
      Profile({"Plumbing", "Electrical"}, "expert", Site,
              <<"available", FALSE>>, <<500, 100>>, 8) }

\* The worker of profile p with primary key i
Worker(p, i) ==
    [id |-> i, skills |-> p.skills, skill_level |-> p.skill_level,
     current_lat |-> p.current_lat, current_lng |-> p.current_lng,
     availability_status |-> p.availability_status, active |-> p.active,
     performance_rating |-> p.performance_rating,
     first_time_fix_rate |-> p.first_time_fix_rate,
     max_tickets_per_day |-> p.max_tickets_per_day]

\* Lists of distinct workers (ids 1, 2, ...): up to MaxWorkers from Pool, one
\* worker of any profile, or two workers that differ in their daily cap only
WorkerLists ==
    { [i \in 1..Len(ps) |-> Worker(ps[i], i)] :
        ps \in UNION { [1..n -> Pool] : n \in 0..MaxWorkers }
               \cup { <<p>> : p \in Profiles }
               \cup { <<p, [p EXCEPT !.max_tickets_per_day = c]>> :
                         p \in Pool, c \in DailyCaps } }

(***************************************************************************)
(* optimization_service.py: OptimizationService.  Stops are numbered from  *)
(* 1 here (0 in the code); a key a job dict does not have reads Absent.    *)
(***************************************************************************)
Absent == -999999998

\* float("inf") (line 78)
Infinity == 2147483647

\* OptimizationService.AVG_SPEED_KMH (line 45)
Opt_AVG_SPEED_KMH == 40

\* _haversine (lines 206-215) of four numbers, in metres
Haversine(lat1, lng1, lat2, lng2) == HaversineMetres(lat1, lng1, lat2, lng2)

\* _travel_minutes (lines 217-221) of a distance in km
TravelMinutes(distance_km) ==
    IF Opt_AVG_SPEED_KMH <= 0 THEN Rat(0, 1)
    ELSE RMul(RDiv(distance_km, Rat(Opt_AVG_SPEED_KMH, 1)), Rat(60, 1))

KeyError(key) == << [exception |-> "KeyError", message |-> key] >>

TypeError ==
    << [exception |-> "TypeError",
        message   |-> "must be real number, not NoneType"] >>

\* What evaluating self._haversine(current_lat, current_lng,
\* job["location_lat"], job["location_lng"]) raises (lines 81-84, 208):
\* << >> when it returns a distance
HaversineRaises(job) ==
    IF job.location_lat = Absent THEN KeyError("location_lat")
    ELSE IF job.location_lng = Absent THEN KeyError("location_lng")
    ELSE IF job.location_lat = None \/ job.location_lng = None THEN TypeError
    ELSE << >>

RECURSIVE ScanRaises(_, _, _)
\* The exception of the first job of unvisited[k..] whose distance cannot
\* be computed (the for loop of lines 79-87 stops there)
ScanRaises(job_locations, unvisited, k) ==
    IF k > Len(unvisited) THEN << >>
    ELSE IF HaversineRaises(job_locations[unvisited[k]]) # << >>
         THEN HaversineRaises(job_locations[unvisited[k]])
         ELSE ScanRaises(job_locations, unvisited, k + 1)

\* Mutant: <= in place of <, so that the last of several nearest stops wins
Nearer_OrEqual(dist, nearest_dist) == dist <= nearest_dist

\* line 85: dist < nearest_dist
Nearer(dist, nearest_dist) == dist < nearest_dist

\* lines 85-87: nearest holds nearest_idx and nearest_dist
NearestAfter(nearest, idx, dist) ==
    IF Nearer(dist, nearest.dist) THEN [idx |-> idx, dist |-> dist]
    ELSE nearest

RECURSIVE NearestScan(_, _, _, _, _)
\* The for loop of lines 79-87 from unvisited[k] on: the final nearest_idx
NearestScan(cur, job_locations, unvisited, k, nearest) ==
    IF k > Len(unvisited) THEN nearest.idx
    ELSE NearestScan(cur, job_locations, unvisited, k + 1,
             NearestAfter(nearest, unvisited[k],
                 Haversine(cur[1], cur[2],
                           job_locations[unvisited[k]].location_lat,
                           job_locations[unvisited[k]].location_lng)))

\* nearest_idx after lines 77-87
NearestIdx(cur, job_locations, unvisited) ==
    NearestScan(cur, job_locations, unvisited, 1,
                [idx |-> None, dist |-> Infinity])

\* list.remove(x): the list without its first x
Remove(s, x) ==
    LET k == CHOOSE i \in 1..Len(s) :
                 s[i] = x /\ \A j \in 1..(i - 1) : s[j] # x
    IN  [i \in 1..(Len(s) - 1) |-> IF i < k THEN s[i] ELSE s[i + 1]]

PositionOf(job) == <<job.location_lat, job.location_lng>>

RECURSIVE VisitOrder(_, _, _, _)
\* lines 89-93 and the passes that follow: nearest_idx leaves unvisited,
\* joins ordered and gives the new current position
Visit(job_locations, unvisited, ordered, nearest_idx) ==
    VisitOrder(PositionOf(job_locations[nearest_idx]), job_locations,
               Remove(unvisited, nearest_idx), Append(ordered, nearest_idx))

\* The while loop of lines 76-93 run to its end: the final ordered
VisitOrder(cur, job_locations, unvisited, ordered) ==
    IF unvisited = << >> THEN ordered
    ELSE Visit(job_locations, unvisited, ordered,
               NearestIdx(cur, job_locations, unvisited))

\* Mutant: order counted from 0
StopOrder_ZeroBased(order) == order

\* line 114: order + 1, order being the 0-based position of enumerate
StopOrder(order) == order + 1

\* Mutant: the time of the last leg, not the time since the start
ArrivalMinutes_LastLeg(total_time, travel_min) == Round(travel_min, 1)

\* line 116: round(total_time, 1)
ArrivalMinutes(total_time, travel_min) == Round(total_time, 1)

\* lines 104-118: the leg of dist km to job added to acc, which holds
\* stops, total_distance and total_time; order is the position of enumerate
AddStop(acc, job, order, dist) ==
    LET travel_min     == TravelMinutes(dist)
        total_distance == RAdd(acc.total_distance, dist)
        total_time     == RAdd(acc.total_time, travel_min)
        stop == [location_lat     |-> job.location_lat,
                 location_lng     |-> job.location_lng,
                 location_address |-> job.location_address,
                 ticket_id        |-> job.ticket_id,
                 order            |-> StopOrder(order),
                 distance_from_previous_km |-> Round(dist, 2),
                 estimated_arrival_minutes
                     |-> ArrivalMinutes(total_time, travel_min)]
    IN  [stops          |-> Append(acc.stops, stop),
         total_distance |-> total_distance,
         total_time     |-> total_time]

RECURSIVE BuildLoop(_, _, _, _, _)
\* The for loop of lines 101-120 from ordered[k] on
BuildLoop(job_locations, ordered, k, prev, acc) ==
    IF k > Len(ordered) THEN acc
    ELSE BuildLoop(job_locations, ordered, k + 1,
                   PositionOf(job_locations[ordered[k]]),
                   AddStop(acc, job_locations[ordered[k]], k - 1,
                           Rat(Haversine(prev[1], prev[2],
                                   job_locations[ordered[k]].location_lat,
                                   job_locations[ordered[k]].location_lng),
                               1000)))

\* lines 122-126: the OptimizedRoute of the stops and totals in acc
RouteOf(acc) ==
    [stops              |-> acc.stops,
     total_distance_km  |-> Round(acc.total_distance, 2),
     total_time_minutes |-> Round(acc.total_time, 1),
     worker_id          |-> None]

\* lines 95-126: the OptimizedRoute of a visiting order
BuildRoute(worker_location, job_locations, ordered) ==
    RouteOf(BuildLoop(job_locations, ordered, 1, worker_location,
                      [stops          |-> << >>,
                       total_distance |-> Rat(0, 1),
                       total_time     |-> Rat(0, 1)]))

\* lines 67-68: OptimizedRoute(stops=[], total_distance_km=0.0, ...)
EmptyRoute ==
    [stops |-> << >>, total_distance_km |-> 0, total_time_minutes |-> 0,
     worker_id |-> None]

\* optimize_route on jobs whose positions are all present
OptimizeRoute(worker_location, job_locations) ==
    IF job_locations = << >> THEN EmptyRoute
    ELSE BuildRoute(worker_location, job_locations,
                    VisitOrder(worker_location, job_locations,
                               [i \in 1..Len(job_locations) |-> i], << >>))

\* Mutant: <= in place of <, so that the last of several nearest workers wins
Closer_OrEqual(dist, best_dist) == dist <= best_dist

\* line 162: dist < best_dist
Closer(dist, best_dist) == dist < best_dist

\* lines 162-164: best holds best_worker_id and best_dist
BestAfter(best, id, dist) ==
    IF Closer(dist, best.dist) THEN [id |-> id, dist |-> dist] ELSE best

RECURSIVE BestWorkerScan(_, _, _, _)
\* The for loop of lines 157-164 from ws[k] on: the final best_worker_id
BestWorkerScan(ws, tk, k, best) ==
    IF k > Len(ws) THEN best.id
    ELSE BestWorkerScan(ws, tk, k + 1,
             BestAfter(best, ws[k].id,
                 Haversine(ws[k].current_lat, ws[k].current_lng,
                           tk.location_lat, tk.location_lng)))

\* best_worker_id after lines 155-164
BestWorkerId(ws, tk) ==
    BestWorkerScan(ws, tk, 1, [id |-> None, dist |-> Infinity])

RECURSIVE FleetRouteLoop(_, _, _)
\* The for loop of lines 170-179 from ws[k] on: the routes appended
FleetRouteLoop(ws, jobs_of, k) ==
    IF k > Len(ws) THEN << >>
    ELSE LET w    == ws[k]
             jobs == IF w.id \in DOMAIN jobs_of THEN jobs_of[w.id] ELSE << >>
         IN  (IF jobs = << >> THEN << >>
              ELSE << [OptimizeRoute(<<w.current_lat, w.current_lng>>, jobs)
                          EXCEPT !.worker_id = w.id] >>)
             \o FleetRouteLoop(ws, jobs_of, k + 1)

\* lines 151-166 run to their end: the job list of every worker id
ClusterJobs(ws, ts) ==
    [id \in {ws[i].id : i \in DOMAIN ws} |->
        SelectSeq(ts, LAMBDA tk : BestWorkerId(ws, tk) = id)]

\* optimize_fleet_routes on tickets whose positions are all present
OptimizeFleetRoutes(ws, ts) ==
    IF ws = << >> \/ ts = << >> THEN << >>
    ELSE FleetRouteLoop(ws, ClusterJobs(ws, ts), 1)

\* lines 197-200: the dict returned for a distance in km
EtaOf(dist) ==
    [distance_km |-> Round(dist, 2),
     eta_minutes |-> Round(TravelMinutes(dist), 1)]

\* calculate_eta (lines 183-200) of four numbers
CalculateEta(worker_lat, worker_lng, dest_lat, dest_lng) ==
    EtaOf(Rat(Haversine(worker_lat, worker_lng, dest_lat, dest_lng), 1000))

(***************************************************************************)
(* The calls of optimize_route and optimize_fleet_routes that are made     *)
(***************************************************************************)
MaxStops == 3

MaxFleetWorkers == 2

MaxTickets == 3

\* The stops of a route: customer sites, two of them possibly the same
StopSites == {Site, Medical, FoodBank, LoneStar}

AddressOf(site) ==
    CASE site = Site      -> "600 Congress Ave, Austin, TX 78701"
      [] site = Medical   -> "1400 N IH-35, Austin, TX 78701"
      [] site = FoodBank  -> "6500 Metropolis Dr, Austin, TX 78744"
      [] site = LoneStar  -> "8500 Burnet Rd, Austin, TX 78757"

\* Positions of stops: known, or with a coordinate that is None or not there
StopPositions ==
    StopSites \cup { <<None, Medical[2]>>, <<Medical[1], None>>,
                     <<Absent, Medical[2]>>, <<Medical[1], Absent>> }

\* The i-th job dict of a list
Job(position, i) ==
    [location_lat     |-> position[1],
     location_lng     |-> position[2],
     location_address |-> IF position \in StopSites THEN AddressOf(position)
                          ELSE AddressOf(Medical),
     ticket_id        |-> 100 + i]

JobLists ==
    { [i \in 1..Len(ps) |-> Job(ps[i], i)] :
        ps \in UNION { [1..n -> StopPositions] : n \in 0..MaxStops } }

\* Where a route starts
StartPositions == {Near, Site}

\* The i-th worker dict of a fleet; ids are distinct
FleetWorker(position, i) ==
    [id |-> 10 * i, current_lat |-> position[1], current_lng |-> position[2]]

FleetPositions == {Near, Site, South}

FleetWorkerLists ==
    { [i \in 1..Len(ps) |-> FleetWorker(ps[i], i)] :
        ps \in UNION { [1..n -> FleetPositions] : n \in 0..MaxFleetWorkers } }

TicketLists ==
    { [i \in 1..Len(ps) |-> Job(ps[i], i)] :
        ps \in UNION { [1..n -> StopSites] : n \in 0..MaxTickets } }

(***************************************************************************)
(* State: the arguments, position, locals and result of a call of          *)
(* rank_workers, of optimize_route or of optimize_fleet_routes             *)
(***************************************************************************)
VARIABLES pc, ticket, workers, scores,
          worker_location, job_locations, unvisited, ordered, current,
          route, error,
          fleet_workers, tickets, next_ticket, worker_jobs, routes,
          calls, singletons,
          db, requests

rankVars == <<ticket, workers, scores>>

routeVars ==
    <<worker_location, job_locations, unvisited, ordered, current, route,
      error>>

fleetVars == <<fleet_workers, tickets, next_ticket, worker_jobs, routes>>

\* The calls in progress on the singleton services, and the instance
\* attributes of the singletons
concVars == <<calls, singletons>>

\* The database and the HTTP requests in progress
flowVars == <<db, requests>>

vars == <<pc, rankVars, routeVars, fleetVars, concVars, flowVars>>

\* No call of rank_workers is under way
NoRankCall == ticket = << >> /\ workers = << >> /\ scores = << >>

\* No call of optimize_route is under way
NoRouteCall ==
    /\ worker_location = << >>
    /\ job_locations = << >>
    /\ unvisited = << >>
    /\ ordered = << >>
    /\ current = << >>
    /\ route = << >>
    /\ error = << >>

\* No call of optimize_fleet_routes is under way
NoFleetCall ==
    /\ fleet_workers = << >>
    /\ tickets = << >>
    /\ next_ticket = 0
    /\ worker_jobs = << >>
    /\ routes = << >>

\* No concurrent callers, and no HTTP request on a database
NoConcCalls == calls = << >> /\ singletons = << >>

NoRequests == db = << >> /\ requests = << >>

Init ==
    /\ pc = "idle"
    /\ ticket \in Tickets
    /\ workers \in WorkerLists
    /\ scores = << >>
    /\ NoRouteCall
    /\ NoFleetCall
    /\ NoConcCalls
    /\ NoRequests

\* assignment_service.rank_workers(ticket, workers)
RankWorkers ==
    /\ pc = "idle"
    /\ scores' = RankWorkersResult(ticket, workers)
    /\ pc' = "ranked"
    /\ UNCHANGED <<ticket, workers, routeVars, fleetVars,
                   concVars, flowVars>>

Next == RankWorkers

Spec == Init /\ [][Next]_vars

(***************************************************************************)
(* optimize_route(worker_location, job_locations), one step per pass of    *)
(* its while loop                                                          *)
(***************************************************************************)
RouteInit ==
    /\ pc = "route_call"
    /\ worker_location \in StartPositions
    /\ job_locations \in JobLists
    /\ unvisited = << >>
    /\ ordered = << >>
    /\ current = << >>
    /\ route = << >>
    /\ error = << >>
    /\ NoRankCall
    /\ NoFleetCall
    /\ NoConcCalls
    /\ NoRequests

\* Mutant: an empty job list is refused
RouteEnter_RaisesOnEmpty ==
    /\ pc = "route_call"
    /\ IF job_locations = << >>
       THEN /\ error' = << [exception |-> "ValueError",
                            message   |-> "no job locations"] >>
            /\ pc' = "route_raised"
            /\ UNCHANGED <<unvisited, ordered, current>>
       ELSE /\ unvisited' = [i \in 1..Len(job_locations) |-> i]
            /\ ordered' = << >>
            /\ current' = worker_location
            /\ pc' = "route_loop"
            /\ UNCHANGED error
    /\ UNCHANGED <<worker_location, job_locations, route, rankVars, fleetVars,
                   concVars, flowVars>>

\* lines 67-74: the empty route at once, or the locals of the while loop
RouteEnter ==
    /\ pc = "route_call"
    /\ IF job_locations = << >>
       THEN /\ route' = << EmptyRoute >>
            /\ pc' = "route_returned"
            /\ UNCHANGED <<unvisited, ordered, current>>
       ELSE /\ unvisited' = [i \in 1..Len(job_locations) |-> i]
            /\ ordered' = << >>
            /\ current' = worker_location
            /\ pc' = "route_loop"
            /\ UNCHANGED route
    /\ UNCHANGED <<worker_location, job_locations, error, rankVars, fleetVars,
                   concVars, flowVars>>

\* Mutant: the last of several stops is left in unvisited
RouteVisit_LeavesLast ==
    /\ pc = "route_loop"
    /\ unvisited # << >>
    /\ Len(unvisited) > 1 \/ Len(job_locations) = 1
    /\ IF ScanRaises(job_locations, unvisited, 1) # << >>
       THEN /\ error' = ScanRaises(job_locations, unvisited, 1)
            /\ pc' = "route_raised"
            /\ UNCHANGED <<unvisited, ordered, current>>
       ELSE \E nearest_idx \in {NearestIdx(current, job_locations, unvisited)} :
                /\ unvisited' = Remove(unvisited, nearest_idx)
                /\ ordered' = Append(ordered, nearest_idx)
                /\ current' = PositionOf(job_locations[nearest_idx])
                /\ UNCHANGED <<pc, error>>
    /\ UNCHANGED <<worker_location, job_locations, route, rankVars, fleetVars,
                   concVars, flowVars>>

\* lines 76-93: one pass of the while loop, which visits the nearest
\* unvisited stop or raises on a position that cannot be read
RouteVisit ==
    /\ pc = "route_loop"
    /\ unvisited # << >>
    /\ IF ScanRaises(job_locations, unvisited, 1) # << >>
       THEN /\ error' = ScanRaises(job_locations, unvisited, 1)
            /\ pc' = "route_raised"
            /\ UNCHANGED <<unvisited, ordered, current>>
       ELSE \E nearest_idx \in {NearestIdx(current, job_locations, unvisited)} :
                /\ unvisited' = Remove(unvisited, nearest_idx)
                /\ ordered' = Append(ordered, nearest_idx)
                /\ current' = PositionOf(job_locations[nearest_idx])
                /\ UNCHANGED <<pc, error>>
    /\ UNCHANGED <<worker_location, job_locations, route, rankVars, fleetVars,
                   concVars, flowVars>>

\* lines 95-126: the stops and totals of the order found
RouteBuild ==
    /\ pc = "route_loop"
    /\ unvisited = << >>
    /\ route' = << BuildRoute(worker_location, job_locations, ordered) >>
    /\ pc' = "route_returned"
    /\ UNCHANGED <<worker_location, job_locations, unvisited, ordered,
                   current, error, rankVars, fleetVars,
                   concVars, flowVars>>

RouteNext == RouteEnter \/ RouteVisit \/ RouteBuild

RouteSpec == RouteInit /\ [][RouteNext]_vars

\* A call that has been made runs on: the statements of optimize_route
\* follow one another in the calling thread, none of them waits or yields
\* (weak fairness of each step; that of RouteBuild is written out, with the
\* condition under which RouteBuild can be taken in the place of ENABLED)
RouteBuildEnabled == pc = "route_loop" /\ unvisited = << >>

RouteLiveSpec ==
    /\ RouteSpec
    /\ WF_vars(RouteEnter)
    /\ WF_vars(RouteVisit)
    /\ []<>(~RouteBuildEnabled) \/ []<><<RouteBuild>>_vars

(***************************************************************************)
(* optimize_fleet_routes(workers, tickets), one step per ticket            *)
(***************************************************************************)
FleetInit ==
    /\ pc = "fleet_call"
    /\ fleet_workers \in FleetWorkerLists
    /\ tickets \in TicketLists
    /\ next_ticket = 0
    /\ worker_jobs = << >>
    /\ routes = << >>
    /\ NoRankCall
    /\ NoRouteCall
    /\ NoConcCalls
    /\ NoRequests

\* lines 148-152: the empty list at once, or an empty job list per worker
FleetEnter ==
    /\ pc = "fleet_call"
    /\ IF fleet_workers = << >> \/ tickets = << >>
       THEN /\ routes' = << >>
            /\ pc' = "fleet_returned"
            /\ UNCHANGED <<next_ticket, worker_jobs>>
       ELSE /\ worker_jobs' =
                  [id \in {fleet_workers[i].id : i \in DOMAIN fleet_workers}
                      |-> << >>]
            /\ next_ticket' = 1
            /\ pc' = "fleet_cluster"
            /\ UNCHANGED routes
    /\ UNCHANGED <<fleet_workers, tickets, rankVars, routeVars,
                   concVars, flowVars>>

\* Mutant: the ticket replaces the worker's jobs instead of joining them
FleetAssign_Overwrites ==
    /\ pc = "fleet_cluster"
    /\ next_ticket <= Len(tickets)
    /\ \E best_worker_id \in {BestWorkerId(fleet_workers, tickets[next_ticket])} :
           worker_jobs' =
               IF best_worker_id # None
               THEN [worker_jobs EXCEPT
                        ![best_worker_id] = << tickets[next_ticket] >>]
               ELSE worker_jobs
    /\ next_ticket' = next_ticket + 1
    /\ UNCHANGED <<pc, fleet_workers, tickets, routes, rankVars, routeVars,
                   concVars, flowVars>>

\* Mutant: the ticket is put in front of the worker's jobs, so that a cluster
\* is in reverse input order
FleetAssign_Prepends ==
    /\ pc = "fleet_cluster"
    /\ next_ticket <= Len(tickets)
    /\ \E best_worker_id \in {BestWorkerId(fleet_workers, tickets[next_ticket])} :
           worker_jobs' =
               IF best_worker_id # None
               THEN [worker_jobs EXCEPT
                        ![best_worker_id] = << tickets[next_ticket] >> \o @]
               ELSE worker_jobs
    /\ next_ticket' = next_ticket + 1
    /\ UNCHANGED <<pc, fleet_workers, tickets, routes, rankVars, routeVars,
                   concVars, flowVars>>

\* Mutant: a worker that has two tickets takes no more, and the ticket goes
\* to the nearest of the others
FleetAssign_Capped ==
    /\ pc = "fleet_cluster"
    /\ next_ticket <= Len(tickets)
    /\ \E best_worker_id \in
              {BestWorkerId(SelectSeq(fleet_workers,
                                      LAMBDA w : Len(worker_jobs[w.id]) < 2),
                            tickets[next_ticket])} :
           worker_jobs' =
               IF best_worker_id # None
               THEN [worker_jobs EXCEPT
                        ![best_worker_id] = Append(@, tickets[next_ticket])]
               ELSE worker_jobs
    /\ next_ticket' = next_ticket + 1
    /\ UNCHANGED <<pc, fleet_workers, tickets, routes, rankVars, routeVars,
                   concVars, flowVars>>

\* lines 154-166: one pass of the for loop over the tickets
FleetAssign ==
    /\ pc = "fleet_cluster"
    /\ next_ticket <= Len(tickets)
    /\ \E best_worker_id \in {BestWorkerId(fleet_workers, tickets[next_ticket])} :
           worker_jobs' =
               IF best_worker_id # None
               THEN [worker_jobs EXCEPT
                        ![best_worker_id] = Append(@, tickets[next_ticket])]
               ELSE worker_jobs
    /\ next_ticket' = next_ticket + 1
    /\ UNCHANGED <<pc, fleet_workers, tickets, routes, rankVars, routeVars,
                   concVars, flowVars>>

\* Mutant: no "continue" at line 172, so that a worker without jobs gets the
\* route optimize_route returns for no stops
FleetRoutes_KeepsEmpty ==
    /\ pc = "fleet_cluster"
    /\ next_ticket > Len(tickets)
    /\ routes' = [k \in DOMAIN fleet_workers |->
                    [OptimizeRoute(<<fleet_workers[k].current_lat,
                                     fleet_workers[k].current_lng>>,
                                   worker_jobs[fleet_workers[k].id])
                        EXCEPT !.worker_id = fleet_workers[k].id]]
    /\ pc' = "fleet_returned"
    /\ UNCHANGED <<fleet_workers, tickets, next_ticket, worker_jobs,
                   rankVars, routeVars,
                   concVars, flowVars>>

\* lines 168-181: a route for each worker that has jobs, in input order
FleetRoutes ==
    /\ pc = "fleet_cluster"
    /\ next_ticket > Len(tickets)
    /\ routes' = FleetRouteLoop(fleet_workers, worker_jobs, 1)
    /\ pc' = "fleet_returned"
    /\ UNCHANGED <<fleet_workers, tickets, next_ticket, worker_jobs,
                   rankVars, routeVars,
                   concVars, flowVars>>

FleetNext == FleetEnter \/ FleetAssign \/ FleetRoutes

FleetSpec == FleetInit /\ [][FleetNext]_vars

(***************************************************************************)
(* Any one call of the three operations                                    *)
(***************************************************************************)
\* rank_workers called for a ticket at the site with workers of the Pool
RankInit ==
    /\ pc = "idle"
    /\ ticket \in {t \in Tickets : <<t.location_lat, t.location_lng>> = Site}
    /\ workers \in { [i \in 1..Len(ps) |-> Worker(ps[i], i)] :
                        ps \in UNION { [1..n -> Pool] : n \in 0..MaxWorkers } }
    /\ scores = << >>
    /\ NoRouteCall
    /\ NoFleetCall
    /\ NoConcCalls
    /\ NoRequests

EngineInit == RankInit \/ RouteInit \/ FleetInit

EngineNext == Next \/ RouteNext \/ FleetNext

EngineSpec == EngineInit /\ [][EngineNext]_vars


(***************************************************************************)
(* Calls made concurrently on the two singleton services.  Every caller    *)
(* has its own arguments and locals; the singletons are what the callers   *)
(* share.  One step is one pass of a loop of the called operation.         *)
(***************************************************************************)
MaxCallers == 2

Callers == 1..MaxCallers

\* The instance attributes of assignment_service and optimization_service:
\* the classes have no __init__ and the methods assign nothing to self
NoAttributes ==
    [assignment_service |-> << >>, optimization_service |-> << >>]

ConcTicket ==
    [skills_required |-> {"HVAC Repair", "Electrical"},
     location_lat |-> Site[1], location_lng |-> Site[2]]

\* Workers of a concurrent rank_workers: the second outranks the first, or
\* is busy
ConcProfiles ==
    { << Profile({"Electrical"}, "intermediate", Near,
                 <<"available", TRUE>>, <<400, 50>>, 8),
         Profile({"HVAC Repair", "Electrical", "Plumbing", "Ductwork"},
                 "senior", Site, <<"available", TRUE>>, <<500, 100>>, 8) >>,
      << Profile({"Electrical"}, "intermediate", Near,
                 <<"available", TRUE>>, <<400, 50>>, 8),
         Profile({"Plumbing", "Electrical"}, "expert", Near,
                 <<"busy", TRUE>>, <<480, 92>>, 8) >> }

ConcJobLists ==
    { [i \in 1..Len(ps) |-> Job(ps[i], i)] :
        ps \in { <<Medical, FoodBank>>, <<LoneStar, Site, Medical>>,
                 <<FoodBank, <<None, Medical[2]>> >>, << >> } }

\* The calls that are made: operation and arguments
ConcCalls ==
    { [op |-> "rank_workers",
       args |-> <<ConcTicket, [i \in 1..2 |-> Worker(ps[i], i)]>>] :
          ps \in ConcProfiles }
    \cup { [op |-> "optimize_route", args |-> <<Near, jl>>] :
              jl \in ConcJobLists }
    \cup { [op |-> "optimize_fleet_routes",
            args |-> << <<FleetWorker(Near, 1), FleetWorker(South, 2)>>,
                        [i \in 1..Len(ps) |-> Job(ps[i], i)] >>] :
              ps \in { <<Medical, FoodBank, Site>>, <<LoneStar, FoodBank>> } }
    \cup { [op |-> "calculate_eta", args |-> <<Near, to>>] :
              to \in {Site, LoneStar} }

\* The call of caller c moves to pc with these locals and this result
Moves(c, to, locals, result) ==
    calls' = [calls EXCEPT ![c] = [op |-> @.op, args |-> @.args, pc |-> to,
                                   locals |-> locals, result |-> result]]

ConcInit ==
    /\ pc = "concurrent"
    /\ calls \in [Callers ->
                    { [op |-> k.op, args |-> k.args, pc |-> "called",
                       locals |-> << >>, result |-> << >>] : k \in ConcCalls }]
    /\ singletons = NoAttributes
    /\ NoRankCall
    /\ NoRouteCall
    /\ NoFleetCall
    /\ NoRequests

ConcFrame == UNCHANGED <<pc, singletons, rankVars, routeVars, fleetVars, flowVars>>

\* rank_workers line 35: scores = []
CallRankEnter(c) ==
    /\ calls[c].op = "rank_workers"
    /\ calls[c].pc = "called"
    /\ Moves(c, "loop", [next |-> 1, scores |-> << >>], << >>)
    /\ ConcFrame

\* rank_workers lines 36-41: one pass of the for loop
CallRankWorker(c) ==
    /\ calls[c].op = "rank_workers"
    /\ calls[c].pc = "loop"
    /\ calls[c].locals.next <= Len(calls[c].args[2])
    /\ \E t \in {calls[c].args[1]},
          w \in {calls[c].args[2][calls[c].locals.next]} :
           Moves(c, "loop",
                 [next   |-> calls[c].locals.next + 1,
                  scores |-> calls[c].locals.scores
                               \o (IF Eligible(w) THEN ScoreWorker(t, w)
                                   ELSE << >>)],
                 << >>)
    /\ ConcFrame

\* rank_workers lines 43-44: sort and return
CallRankReturn(c) ==
    /\ calls[c].op = "rank_workers"
    /\ calls[c].pc = "loop"
    /\ calls[c].locals.next > Len(calls[c].args[2])
    /\ Moves(c, "returned", calls[c].locals,
             << SortScores(calls[c].locals.scores) >>)
    /\ ConcFrame

\* optimize_route lines 67-74
CallRouteEnter(c) ==
    /\ calls[c].op = "optimize_route"
    /\ calls[c].pc = "called"
    /\ IF calls[c].args[2] = << >>
       THEN Moves(c, "returned", << >>, << EmptyRoute >>)
       ELSE Moves(c, "loop",
                  [unvisited |-> [i \in 1..Len(calls[c].args[2]) |-> i],
                   ordered   |-> << >>,
                   current   |-> calls[c].args[1]],
                  << >>)
    /\ ConcFrame

\* Mutant: the current position is kept on the service, self.current, where
\* every caller finds the one written last
CallRouteVisit_SharedCurrent(c) ==
    /\ calls[c].op = "optimize_route"
    /\ calls[c].pc = "loop"
    /\ calls[c].locals.unvisited # << >>
    /\ \E job_locs \in {calls[c].args[2]}, l \in {calls[c].locals},
          cur \in {IF singletons.optimization_service = << >>
                   THEN calls[c].locals.current
                   ELSE singletons.optimization_service[1]} :
           IF ScanRaises(job_locs, l.unvisited, 1) # << >>
           THEN /\ Moves(c, "raised", l, ScanRaises(job_locs, l.unvisited, 1))
                /\ UNCHANGED singletons
           ELSE \E nearest_idx \in {NearestIdx(cur, job_locs, l.unvisited)} :
                  /\ Moves(c, "loop",
                        [unvisited |-> Remove(l.unvisited, nearest_idx),
                         ordered   |-> Append(l.ordered, nearest_idx),
                         current   |-> PositionOf(job_locs[nearest_idx])],
                        << >>)
                  /\ singletons' =
                        [singletons EXCEPT !.optimization_service =
                            << PositionOf(job_locs[nearest_idx]) >>]
    /\ UNCHANGED <<pc, rankVars, routeVars, fleetVars, flowVars>>

\* optimize_route lines 76-93: one pass of the while loop
CallRouteVisit(c) ==
    /\ calls[c].op = "optimize_route"
    /\ calls[c].pc = "loop"
    /\ calls[c].locals.unvisited # << >>
    /\ \E job_locs \in {calls[c].args[2]}, l \in {calls[c].locals} :
           IF ScanRaises(job_locs, l.unvisited, 1) # << >>
           THEN Moves(c, "raised", l, ScanRaises(job_locs, l.unvisited, 1))
           ELSE \E nearest_idx \in
                       {NearestIdx(l.current, job_locs, l.unvisited)} :
                  Moves(c, "loop",
                        [unvisited |-> Remove(l.unvisited, nearest_idx),
                         ordered   |-> Append(l.ordered, nearest_idx),
                         current   |-> PositionOf(job_locs[nearest_idx])],
                        << >>)
    /\ ConcFrame

\* Mutant: the list of stops is put into visiting order in place
CallRouteBuild_ReordersInput(c) ==
    /\ calls[c].op = "optimize_route"
    /\ calls[c].pc = "loop"
    /\ calls[c].locals.unvisited = << >>
    /\ calls' = [calls EXCEPT ![c] =
          [op |-> @.op,
           args |-> << @.args[1],
                       [k \in DOMAIN @.locals.ordered |->
                           @.args[2][@.locals.ordered[k]]] >>,
           pc |-> "returned",
           locals |-> @.locals,
           result |-> << BuildRoute(@.args[1], @.args[2], @.locals.ordered) >>]]
    /\ ConcFrame

\* optimize_route lines 95-126
CallRouteBuild(c) ==
    /\ calls[c].op = "optimize_route"
    /\ calls[c].pc = "loop"
    /\ calls[c].locals.unvisited = << >>
    /\ Moves(c, "returned", calls[c].locals,
             << BuildRoute(calls[c].args[1], calls[c].args[2],
                           calls[c].locals.ordered) >>)
    /\ ConcFrame

\* optimize_fleet_routes lines 148-152
CallFleetEnter(c) ==
    /\ calls[c].op = "optimize_fleet_routes"
    /\ calls[c].pc = "called"
    /\ IF calls[c].args[1] = << >> \/ calls[c].args[2] = << >>
       THEN Moves(c, "returned", << >>, << << >> >>)
       ELSE Moves(c, "loop",
                  [next_ticket |-> 1,
                   worker_jobs |->
                      [id \in {calls[c].args[1][i].id :
                                  i \in DOMAIN calls[c].args[1]} |-> << >>]],
                  << >>)
    /\ ConcFrame

\* optimize_fleet_routes lines 154-166: one pass of the for loop
CallFleetAssign(c) ==
    /\ calls[c].op = "optimize_fleet_routes"
    /\ calls[c].pc = "loop"
    /\ calls[c].locals.next_ticket <= Len(calls[c].args[2])
    /\ \E l \in {calls[c].locals},
          tk \in {calls[c].args[2][calls[c].locals.next_ticket]} :
           \E best_worker_id \in {BestWorkerId(calls[c].args[1], tk)} :
              Moves(c, "loop",
                    [next_ticket |-> l.next_ticket + 1,
                     worker_jobs |->
                        IF best_worker_id # None
                        THEN [l.worker_jobs EXCEPT
                                 ![best_worker_id] = Append(@, tk)]
                        ELSE l.worker_jobs],
                    << >>)
    /\ ConcFrame

\* optimize_fleet_routes lines 168-181
CallFleetRoutes(c) ==
    /\ calls[c].op = "optimize_fleet_routes"
    /\ calls[c].pc = "loop"
    /\ calls[c].locals.next_ticket > Len(calls[c].args[2])
    /\ Moves(c, "returned", calls[c].locals,
             << FleetRouteLoop(calls[c].args[1],
                               calls[c].locals.worker_jobs, 1) >>)
    /\ ConcFrame

\* calculate_eta lines 195-200
CallEta(c) ==
    /\ calls[c].op = "calculate_eta"
    /\ calls[c].pc = "called"
    /\ Moves(c, "returned", << >>,
             << CalculateEta(calls[c].args[1][1], calls[c].args[1][2],
                             calls[c].args[2][1], calls[c].args[2][2]) >>)
    /\ ConcFrame

ConcNext ==
    \E c \in DOMAIN calls :
        \/ CallRankEnter(c)
        \/ CallRankWorker(c)
        \/ CallRankReturn(c)
        \/ CallRouteEnter(c)
        \/ CallRouteVisit(c)
        \/ CallRouteBuild(c)
        \/ CallFleetEnter(c)
        \/ CallFleetAssign(c)
        \/ CallFleetRoutes(c)
        \/ CallEta(c)

ConcSpec == ConcInit /\ [][ConcNext]_vars


(***************************************************************************)
(* The travel-time primitive: utils/scoring.py                             *)
(* estimate_travel_time_minutes and OptimizationService._travel_minutes,   *)
(* called on a distance (and a speed)                                      *)
(***************************************************************************)
\* Mutant: the hours of travel, not the minutes
EstimateTravelTimeMinutes_Hours(distance_km, avg_speed_kmh) ==
    IF avg_speed_kmh.n <= 0 THEN Rat(0, 1)
    ELSE RDiv(distance_km, avg_speed_kmh)

\* scoring.py lines 49-53
EstimateTravelTimeMinutes(distance_km, avg_speed_kmh) ==
    IF avg_speed_kmh.n <= 0 THEN Rat(0, 1)
    ELSE RMul(RDiv(distance_km, avg_speed_kmh), Rat(60, 1))

\* scoring.py line 49: avg_speed_kmh: float = 40.0
DefaultSpeedKmh == 40

\* Largest distance a travel time is asked for, in km
MaxTravelKm == 12

\* Distances in quarters of a km, some below zero; speeds in km/h
TravelDistances == { Rat(q, 4) : q \in (-2)..(4 * MaxTravelKm) }

TravelSpeeds == { Rat(v, 1) : v \in {-40, 0, 25, DefaultSpeedKmh, 60} }

TravelCalls ==
    { [op |-> "estimate_travel_time_minutes", args |-> <<x, v>>] :
          x \in TravelDistances, v \in TravelSpeeds }
    \cup { [op |-> "estimate_travel_time_minutes", args |-> <<x>>] :
              x \in TravelDistances }
    \cup { [op |-> "_travel_minutes", args |-> <<x>>] :
              x \in TravelDistances }

TravelInit ==
    /\ pc = "travel"
    /\ calls \in { << [op |-> k.op, args |-> k.args, pc |-> "called",
                       locals |-> << >>, result |-> << >>] >> :
                     k \in TravelCalls }
    /\ singletons = NoAttributes
    /\ NoRankCall
    /\ NoRouteCall
    /\ NoFleetCall
    /\ NoRequests

\* estimate_travel_time_minutes(distance_km, avg_speed_kmh), the speed being
\* the default when it is not given
EstimateTravelTime ==
    /\ pc = "travel"
    /\ calls[1].op = "estimate_travel_time_minutes"
    /\ calls[1].pc = "called"
    /\ Moves(1, "returned", << >>,
             << EstimateTravelTimeMinutes(calls[1].args[1],
                    IF Len(calls[1].args) = 2 THEN calls[1].args[2]
                    ELSE Rat(DefaultSpeedKmh, 1)) >>)
    /\ ConcFrame

\* optimization_service._travel_minutes(distance_km)
TravelMinutesCall ==
    /\ pc = "travel"
    /\ calls[1].op = "_travel_minutes"
    /\ calls[1].pc = "called"
    /\ Moves(1, "returned", << >>, << TravelMinutes(calls[1].args[1]) >>)
    /\ ConcFrame

TravelNext == EstimateTravelTime \/ TravelMinutesCall

TravelSpec == TravelInit /\ [][TravelNext]_vars


(***************************************************************************)
(* The three operations that derive a distance and a travel time, called   *)
(* for one pair of known positions: calculate_eta(from, to),               *)
(* optimize_route(from, [to]) and rank_workers for a ticket at to and a    *)
(* worker at from                                                          *)
(***************************************************************************)
\* The positions a pair is made of
PairPlaces == {Site, Near, Medical, FoodBank, South, AtRadius, PastRadius, Far}

TicketAt(to) ==
    [skills_required |-> {"Electrical"},
     location_lat |-> to[1], location_lng |-> to[2]]

WorkerAt(from) ==
    Worker(Profile({"Electrical"}, "senior", from, <<"available", TRUE>>,
                   <<450, 80>>, 8), 1)

\* The three calls for the pair
PairCalls(from, to) ==
    << [op |-> "calculate_eta", args |-> <<from, to>>],
       [op |-> "optimize_route",
        args |-> <<from, << [location_lat |-> to[1], location_lng |-> to[2],
                             location_address |-> "", ticket_id |-> 101] >> >>],
       [op |-> "rank_workers",
        args |-> <<TicketAt(to), << WorkerAt(from) >> >>] >>

PairInit ==
    /\ pc = "pair"
    /\ \E from \in PairPlaces, to \in PairPlaces :
          calls = [c \in 1..3 |->
                     [op |-> PairCalls(from, to)[c].op,
                      args |-> PairCalls(from, to)[c].args,
                      pc |-> "called", locals |-> << >>, result |-> << >>]]
    /\ singletons = NoAttributes
    /\ NoRankCall
    /\ NoRouteCall
    /\ NoFleetCall
    /\ NoRequests

PairNext ==
    \E c \in DOMAIN calls :
        \/ CallEta(c)
        \/ CallRouteEnter(c)
        \/ CallRouteVisit(c)
        \/ CallRouteBuild(c)
        \/ CallRankEnter(c)
        \/ CallRankWorker(c)
        \/ CallRankReturn(c)

PairSpec == PairInit /\ [][PairNext]_vars


(***************************************************************************)
(* routes/assignments.py and database.py: the assignment workflow.  Every  *)
(* HTTP request runs its handler in a database session of its own          *)
(* (get_db).  The handler is suspended at each await, where the other      *)
(* requests run, and its session is committed after it has returned; what  *)
(* a session has flushed is seen by the other sessions from its commit on  *)
(* (the default database is PostgreSQL, READ COMMITTED; the row locks of   *)
(* the UPDATEs order the commits and do not change what is written).  A    *)
(* session keeps the objects it has loaded and writes the columns whose    *)
(* value it has changed.  Columns of dates and texts, and the              *)
(* notifications, are left out.                                            *)
(***************************************************************************)
\* Largest number of requests in progress together
MaxRequests == 2

\* A row of tickets: a request for an electrician at Site
TicketRow(id, status, assigned_worker_id) ==
    [id |-> id, status |-> status, assigned_worker_id |-> assigned_worker_id,
     skills_required |-> {"Electrical"},
     location_lat |-> Site[1], location_lng |-> Site[2]]

\* A row of workers
WorkerRow(p, id, total_completed) ==
    Worker(p, id) @@ [total_completed |-> total_completed]

\* routes/assignments.py lines 52-66: _calculate_eta, << >> for None
CalculateEtaOf(worker, tk) ==
    IF /\ worker.current_lat # None
       /\ worker.current_lng # None
       /\ tk.location_lat # None
       /\ tk.location_lng # None
    THEN << CalculateEta(worker.current_lat, worker.current_lng,
                         tk.location_lat, tk.location_lng) >>
    ELSE << >>

\* lines 267-293: the Assignment that auto_assign_ticket adds for tk and
\* worker, given the ETA and the scores of that worker alone
AssignmentOf(id, tk, worker, eta_info, own) ==
    [id |-> id, ticket_id |-> tk.id, worker_id |-> worker.id,
     status |-> "pending",
     travel_distance_km  |-> IF eta_info # << >>
                             THEN eta_info[1].distance_km ELSE None,
     travel_time_minutes |-> IF eta_info # << >>
                             THEN eta_info[1].eta_minutes ELSE None,
     skill_match_score |-> IF own # << >>
                           THEN own[1].skill_match_score ELSE None,
     proximity_score   |-> IF own # << >>
                           THEN own[1].proximity_score ELSE None,
     overall_score     |-> IF own # << >>
                           THEN own[1].overall_score ELSE None]

NewAssignment(id, tk, worker) ==
    AssignmentOf(id, tk, worker, CalculateEtaOf(worker, tk),
                 RankWorkersResult(tk, << worker >>))

\* Three workers: the first outranks the second for a ticket at Site, the
\* third is not active
FlowWorkers ==
    << WorkerRow(Profile({"HVAC Repair", "Electrical", "Plumbing", "Ductwork"},
                         "senior", Site, <<"available", TRUE>>,
                         <<500, 100>>, 8), 1, 0),
       WorkerRow(Profile({"Electrical"}, "intermediate", Near,
                         <<"available", TRUE>>, <<400, 50>>, 8), 2, 0),
       WorkerRow(Profile({"Plumbing", "Electrical"}, "expert", Site,
                         <<"available", FALSE>>, <<500, 100>>, 8), 3, 0) >>

\* A database in which nothing has been assigned yet
FreshDb ==
    [workers |-> FlowWorkers,
     tickets |-> << TicketRow(1, "open", None), TicketRow(2, "new", None),
                    TicketRow(3, "open", None) >>,
     assignments |-> << >>,
     assignment_seq |-> 0]

\* The database after ticket 3 has been auto-assigned to worker 1, who was
\* at the site of the ticket, and completed
HistoryDb ==
    [workers |-> [FlowWorkers EXCEPT ![1].total_completed = 1],
     tickets |-> << TicketRow(1, "open", None), TicketRow(2, "new", None),
                    TicketRow(3, "completed", 1) >>,
     assignments |->
         << [id |-> 1, ticket_id |-> 3, worker_id |-> 1, status |-> "completed",
             travel_distance_km |-> 0, travel_time_minutes |-> 0,
             skill_match_score |-> 1000, proximity_score |-> 1000,
             overall_score |-> 1000] >>,
     assignment_seq |-> 1]

\* The requests that are made
RequestKinds ==
    << [op |-> "auto_assign_ticket", args |-> [ticket_id |-> 1]],
       [op |-> "auto_assign_ticket", args |-> [ticket_id |-> 2]],
       [op |-> "auto_assign_ticket", args |-> [ticket_id |-> 3]],
       [op |-> "update_assignment",
        args |-> [assignment_id |-> 1, status |-> "completed"]],
       [op |-> "update_assignment",
        args |-> [assignment_id |-> 2, status |-> "completed"]],
       [op |-> "update_assignment",
        args |-> [assignment_id |-> 1, status |-> "en_route"]] >>

\* The lists of up to MaxRequests requests; the order of a list has no
\* meaning, so each choice of requests is listed once
RequestLists ==
    { [i \in 1..Len(ks) |->
          [op |-> RequestKinds[ks[i]].op, args |-> RequestKinds[ks[i]].args,
           pc |-> "received", overlapped |-> FALSE, session |-> << >>,
           writes |-> << >>, response |-> << >>]] :
        ks \in { s \in UNION { [1..n -> DOMAIN RequestKinds] :
                                  n \in 1..MaxRequests } :
                   \A i \in 1..(Len(s) - 1) : s[i] <= s[i + 1] } }

\* Request r is handled while another request is
InProgress(r) == requests[r].pc \notin {"received", "done"}

\* The next step of request r: its place, the objects of its session, the
\* writes it has pending and its response
Goes(r, to, session, writes, response) ==
    requests' =
        [requests EXCEPT ![r] =
            [op |-> @.op, args |-> @.args, pc |-> to,
             overlapped |-> \/ @.overlapped
                            \/ /\ @.pc = "received"
                               /\ \E q \in DOMAIN requests \ {r} : InProgress(q),
             session |-> session, writes |-> writes, response |-> response]]

\* raise HTTPException: get_db rolls the session back
Raises(r, status_code, detail) ==
    Goes(r, "done", requests[r].session, << >>,
         << [status_code |-> status_code, detail |-> detail] >>)

\* The UPDATE of one column of a loaded row, if its value has changed
Changed(table, row, column, value) ==
    IF row[column] = value THEN << >>
    ELSE << <<table, row.id, column, value>> >>

\* One write applied to the committed rows
Apply(d, w) ==
    IF w[3] = "insert"
    THEN [d EXCEPT !.assignments =
             [i \in DOMAIN @ \cup {w[2]} |-> IF i = w[2] THEN w[4] ELSE @[i]]]
    ELSE [d EXCEPT ![w[1]][w[2]][w[3]] = w[4]]

RECURSIVE ApplyAll(_, _, _)
\* The writes ws[k..] applied in the order they were made
ApplyAll(d, ws, k) ==
    IF k > Len(ws) THEN d ELSE ApplyAll(Apply(d, ws[k]), ws, k + 1)

\* lines 23-29: the rows the SELECT of the available, active workers finds
AvailableWorkers(d) ==
    { d.workers[i] : i \in { j \in DOMAIN d.workers :
                               /\ d.workers[j].active = TRUE
                               /\ d.workers[j].availability_status
                                    = "available" } }

\* The orders in which a SELECT without ORDER BY may return the rows S
Orderings(S) ==
    { s \in [1..Cardinality(S) -> S] : \A x \in S : \E i \in DOMAIN s : s[i] = x }

FlowInit ==
    /\ pc = "workflow"
    /\ db \in {FreshDb, HistoryDb}
    /\ requests \in RequestLists
    /\ NoRankCall
    /\ NoRouteCall
    /\ NoFleetCall
    /\ NoConcCalls

FlowFrame == UNCHANGED <<pc, rankVars, routeVars, fleetVars, concVars>>

\* auto_assign_ticket lines 249-261: the ticket, which must be open or new
AutoFetchTicket(r) ==
    /\ requests[r].op = "auto_assign_ticket"
    /\ requests[r].pc = "received"
    /\ \E id \in {requests[r].args.ticket_id} :
          IF id \notin DOMAIN db.tickets
          THEN Raises(r, 404, <<"Ticket not found">>)
          ELSE IF db.tickets[id].status \notin {"open", "new"}
          THEN Raises(r, 400, <<"Ticket is already in '", db.tickets[id].status,
                                "' status and cannot be auto-assigned">>)
          ELSE Goes(r, "ticket_loaded", [ticket |-> db.tickets[id]],
                    << >>, << >>)
    /\ UNCHANGED db
    /\ FlowFrame

\* _get_best_worker lines 23-43: the available, active workers in the order
\* the database returns them, their ranking and its first score
AutoSelectWorkers(r) ==
    /\ requests[r].op = "auto_assign_ticket"
    /\ requests[r].pc = "ticket_loaded"
    /\ \E found \in Orderings(AvailableWorkers(db)) :
          IF found = << >>
          THEN Raises(r, 400, <<"No available workers found">>)
          ELSE \E ranking \in
                    {RankWorkersResult(requests[r].session.ticket, found)} :
                  IF ranking = << >>
                  THEN Raises(r, 400, <<"No suitable workers found for this ticket's requirements">>)
                  ELSE Goes(r, "ranked",
                            [ticket     |-> requests[r].session.ticket,
                             workers    |-> found,
                             scores     |-> ranking,
                             best_score |-> ranking[1]],
                            << >>, << >>)
    /\ UNCHANGED db
    /\ FlowFrame

\* _get_best_worker lines 45-49: the best worker by primary key, which is
\* the object the session has loaded already
AutoLoadWorker(r) ==
    /\ requests[r].op = "auto_assign_ticket"
    /\ requests[r].pc = "ranked"
    /\ \E id \in {requests[r].session.best_score.worker_id} :
          IF id \notin DOMAIN db.workers
          THEN Raises(r, 500, <<"Best worker could not be loaded">>)
          ELSE \E k \in { j \in DOMAIN requests[r].session.workers :
                            requests[r].session.workers[j].id = id } :
                  Goes(r, "worker_loaded",
                       requests[r].session
                          @@ [worker |-> requests[r].session.workers[k]],
                       << >>, << >>)
    /\ UNCHANGED db
    /\ FlowFrame

\* auto_assign_ticket lines 266-304: the new Assignment, the ticket
\* assigned, the worker busy, flushed
AutoWrite(r) ==
    /\ requests[r].op = "auto_assign_ticket"
    /\ requests[r].pc = "worker_loaded"
    /\ \E id \in {db.assignment_seq + 1},
          tk \in {requests[r].session.ticket},
          worker \in {requests[r].session.worker} :
          \E assignment \in {NewAssignment(id, tk, worker)} :
             /\ db' = [db EXCEPT !.assignment_seq = id]
             /\ Goes(r, "flushed",
                     requests[r].session @@ [assignment |-> assignment],
                     << <<"assignments", id, "insert", assignment>> >>
                       \o Changed("tickets", tk, "status", "assigned")
                       \o Changed("tickets", tk, "assigned_worker_id", worker.id)
                       \o Changed("workers", worker, "availability_status",
                                  "busy"),
                     << >>)
    /\ FlowFrame

\* update_assignment lines 186-198: the assignment, and its new status
UpdateFetchAssignment(r) ==
    /\ requests[r].op = "update_assignment"
    /\ requests[r].pc = "received"
    /\ \E id \in {requests[r].args.assignment_id} :
          IF id \notin DOMAIN db.assignments
          THEN Raises(r, 404, <<"Assignment not found">>)
          ELSE Goes(r, "assignment_loaded",
                    [assignment |-> [db.assignments[id] EXCEPT
                                        !.status = requests[r].args.status]],
                    Changed("assignments", db.assignments[id], "status",
                            requests[r].args.status),
                    << >>)
    /\ UNCHANGED db
    /\ FlowFrame

\* update_assignment lines 201-219: the ticket of the assignment, in
\* progress when the worker is en route, completed with the assignment
UpdateFetchTicket(r) ==
    /\ requests[r].op = "update_assignment"
    /\ requests[r].pc = "assignment_loaded"
    /\ \E tk \in {db.tickets[requests[r].session.assignment.ticket_id]},
          new_status \in {requests[r].args.status} :
          Goes(r, IF new_status = "completed" THEN "ticket_loaded"
                  ELSE "updated",
               requests[r].session @@ [ticket |-> tk],
               requests[r].writes
                 \o (IF new_status = "en_route"
                     THEN Changed("tickets", tk, "status", "in_progress")
                     ELSE IF new_status = "completed"
                     THEN Changed("tickets", tk, "status", "completed")
                     ELSE << >>),
               << >>)
    /\ UNCHANGED db
    /\ FlowFrame

\* update_assignment lines 220-227: the worker of a completed assignment is
\* available again, with one more job completed
UpdateFetchWorker(r) ==
    /\ requests[r].op = "update_assignment"
    /\ requests[r].pc = "ticket_loaded"
    /\ \E worker \in {db.workers[requests[r].session.assignment.worker_id]} :
          Goes(r, "updated",
               requests[r].session @@ [worker |-> worker],
               requests[r].writes
                 \o Changed("workers", worker, "availability_status",
                            "available")
                 \o Changed("workers", worker, "total_completed",
                            worker.total_completed + 1),
               << >>)
    /\ UNCHANGED db
    /\ FlowFrame

\* update_assignment lines 236-240: flush, refresh and return
UpdateFlush(r) ==
    /\ requests[r].op = "update_assignment"
    /\ requests[r].pc = "updated"
    /\ Goes(r, "flushed", requests[r].session, requests[r].writes, << >>)
    /\ UNCHANGED db
    /\ FlowFrame

\* database.py line 59: the session of a handler that has returned is
\* committed, and the assignment is the response
Commit(r) ==
    /\ requests[r].pc = "flushed"
    /\ db' = ApplyAll(db, requests[r].writes, 1)
    /\ Goes(r, "done", requests[r].session, << >>,
            << [status_code |-> IF requests[r].op = "auto_assign_ticket"
                                THEN 201 ELSE 200,
                assignment  |-> requests[r].session.assignment] >>)
    /\ FlowFrame

FlowNext ==
    \E r \in DOMAIN requests :
        \/ AutoFetchTicket(r)
        \/ AutoSelectWorkers(r)
        \/ AutoLoadWorker(r)
        \/ AutoWrite(r)
        \/ UpdateFetchAssignment(r)
        \/ UpdateFetchTicket(r)
        \/ UpdateFetchWorker(r)
        \/ UpdateFlush(r)
        \/ Commit(r)

FlowSpec == FlowInit /\ [][FlowNext]_vars

(***************************************************************************)
(* Properties of rank_workers.  A call has returned when pc = "ranked";    *)
(* scores is then its result.                                              *)
(***************************************************************************)
Returned == pc = "ranked"

\* The positions of the returned Scores of input worker i
ScoresOf(i) == {k \in 1..Len(scores) : scores[k].worker_id = workers[i].id}

\* Position in the input list of the worker a returned Score is about
InputIndex(sc) == CHOOSE i \in 1..Len(workers) : workers[i].id = sc.worker_id

PositionsKnown(w) ==
    /\ ticket.location_lat # None /\ ticket.location_lng # None
    /\ w.current_lat # None /\ w.current_lng # None

\* Great-circle distance from the ticket to w in metres (positions known)
DistanceTo(w) ==
    HaversineDistance(ticket.location_lat, ticket.location_lng,
                      w.current_lat, w.current_lng)

\* A worker the claims call scorable: available, active, and of unknown
\* distance or within 100 km
Scorable(w) ==
    /\ w.availability_status = "available"
    /\ w.active
    /\ (PositionsKnown(w) => DistanceTo(w) <= 100 * 1000)

\* C1: the list returned by rank_workers is sorted by non-increasing
\* overall_score: each returned Score's overall_score is >= its successor's.
C1_SortedByOverallScore ==
    Returned =>
        \A k \in 1..(Len(scores) - 1) :
            scores[k].overall_score >= scores[k + 1].overall_score

\* Three workers were scored and the call had to turn their order around
C1_Witness ==
    /\ Returned
    /\ Len(scores) = 3
    /\ scores[1].overall_score > scores[2].overall_score
    /\ scores[2].overall_score > scores[3].overall_score
    /\ InputIndex(scores[1]) = 3
    /\ InputIndex(scores[3]) = 1

\* C2: a worker whose position and the ticket's are both known and who is
\* more than 100 km from the ticket gets no Score, whatever its skills, level
\* or performance; the call returns normally.
C2_FarWorkerExcluded ==
    Returned =>
        \A i \in 1..Len(workers) :
            (PositionsKnown(workers[i]) /\ DistanceTo(workers[i]) > 100 * 1000)
                => ScoresOf(i) = {}

\* An available, active expert holding every required skill, with the best
\* performance, 100.002 km away: the call returned and left it out
C2_Witness ==
    /\ Returned
    /\ Len(workers) = 1
    /\ scores = << >>
    /\ Eligible(workers[1])
    /\ PositionsKnown(workers[1])
    /\ DistanceTo(workers[1]) \in (100 * 1000 + 1)..(100 * 1000 + 5)
    /\ workers[1].skill_level = "expert"
    /\ ticket.skills_required # {}
    /\ ticket.skills_required \subseteq workers[1].skills
    /\ workers[1].performance_rating = 500
    /\ workers[1].first_time_fix_rate = 100

\* C3: rank_workers returns exactly one Score for each scorable input worker
\* (available, active, distance unknown or at most 100 km) and none for any
\* other: every returned worker_id is that of an available, active input
\* worker and the output is as long as the number of scorable workers.
C3_ExactlyTheScorable ==
    Returned =>
        /\ \A i \in 1..Len(workers) :
              Cardinality(ScoresOf(i)) = IF Scorable(workers[i]) THEN 1 ELSE 0
        /\ \A k \in 1..Len(scores) :
              \E i \in 1..Len(workers) :
                  /\ workers[i].id = scores[k].worker_id
                  /\ workers[i].availability_status = "available"
                  /\ workers[i].active
        /\ Len(scores) =
              Cardinality({i \in 1..Len(workers) : Scorable(workers[i])})

\* Of three workers one is scored, one is left out for its status or active
\* flag and one for its distance
C3_Witness ==
    /\ Returned
    /\ Len(workers) = 3
    /\ Len(scores) = 1
    /\ \E i \in 1..3 : ~workers[i].active
    /\ \E i \in 1..3 :
          /\ Eligible(workers[i])
          /\ PositionsKnown(workers[i])
          /\ DistanceTo(workers[i]) > 100 * 1000

\* C4: the sort compares overall_score only and is stable: two returned
\* Scores with equal (rounded) overall_score are in the relative order of
\* their workers in the input list.
C4_StableOnTies ==
    Returned =>
        \A k, l \in 1..Len(scores) :
            (k < l /\ scores[k].overall_score = scores[l].overall_score)
                => InputIndex(scores[k]) < InputIndex(scores[l])

\* Two Scores tie on overall_score with different skill and performance
\* scores, below a third that came later in the input
C4_Witness ==
    /\ Returned
    /\ Len(scores) = 3
    /\ scores[2].overall_score = scores[3].overall_score
    /\ scores[2].skill_match_score > scores[3].skill_match_score
    /\ scores[2].performance_score < scores[3].performance_score
    /\ scores[1].overall_score > scores[2].overall_score
    /\ InputIndex(scores[1]) = 3

\* The worker a returned Score is about
WorkerOf(sc) == workers[InputIndex(sc)]

\* The level bonus of the claims, in hundredths
BonusHundredths(level) ==
    CASE level = "junior"       -> 0
      [] level = "intermediate" -> 5
      [] level = "senior"       -> 10
      [] level = "expert"       -> 15
      [] OTHER                  -> 0

NamedLevels == {"junior", "intermediate", "senior", "expert"}

\* min(1, |R & S| / |R| + bonus) as a number of 1/(100 |R|)
SkillHundredths(R, w) ==
    Min2(100 * Cardinality(R),
         100 * Cardinality(R \cap w.skills)
           + BonusHundredths(w.skill_level) * Cardinality(R))

\* C5: for a non-empty required set R and worker skills S, the skill match
\* score is min(1.0, |R & S| / |R| + bonus(level)) (returned to 3 decimals),
\* the denominator being |R| alone; matching skills are R & S and missing
\* skills R \ S.
C5_SkillMatchFormula ==
    Returned =>
        \A k \in 1..Len(scores) :
            LET w == WorkerOf(scores[k])
                R == ticket.skills_required
                r == Cardinality(R)
            IN  (R # {} /\ w.skill_level \in NamedLevels) =>
                    /\ 2 * Abs(r * scores[k].skill_match_score
                               - 10 * SkillHundredths(R, w)) <= r
                    /\ scores[k].matching_skills = R \cap w.skills
                    /\ scores[k].missing_skills = R \ w.skills

\* One of three required skills held, among other skills, by an intermediate
\* worker: 1/3 + 0.05 = 0.383
C5_Witness ==
    /\ Returned
    /\ Len(scores) = 1
    /\ Cardinality(ticket.skills_required) = 3
    /\ WorkerOf(scores[1]).skill_level = "intermediate"
    /\ Cardinality(scores[1].matching_skills) = 1
    /\ Cardinality(scores[1].missing_skills) = 2
    /\ scores[1].skill_match_score = 383

\* C6: when the ticket requires no skills, every scored worker's skill match
\* score is exactly 1.0 whatever its level, its matching skills are its full
\* skill set and its missing skills are empty.
C6_NoSkillsRequired ==
    Returned =>
        \A k \in 1..Len(scores) :
            ticket.skills_required = {} =>
                /\ scores[k].skill_match_score = 1000
                /\ scores[k].matching_skills = WorkerOf(scores[k]).skills
                /\ scores[k].missing_skills = {}

\* An expert (bonus 0.15) with skills is scored for a ticket without
\* required skills
C6_Witness ==
    /\ Returned
    /\ ticket.skills_required = {}
    /\ Len(scores) = 1
    /\ WorkerOf(scores[1]).skill_level = "expert"
    /\ scores[1].matching_skills # {}
    /\ scores[1].skill_match_score = 1000

\* C7: when any of the four coordinates is unknown, an available, active
\* worker is never excluded by distance: it is scored with proximity 0.5,
\* travel distance 20.0 km and travel time 30.0 minutes.
C7_UnknownPosition ==
    Returned =>
        \A i \in 1..Len(workers) :
            ( /\ ~PositionsKnown(workers[i])
              /\ workers[i].availability_status = "available"
              /\ workers[i].active )
            => /\ Cardinality(ScoresOf(i)) = 1
               /\ \A k \in ScoresOf(i) :
                     /\ scores[k].proximity_score = 500
                     /\ scores[k].travel_distance_km = 2000
                     /\ scores[k].travel_time_minutes = 300

\* Only the ticket's longitude is unknown, and the worker stands where a
\* known distance would have excluded it
C7_Witness ==
    /\ Returned
    /\ ticket.location_lat # None
    /\ ticket.location_lng = None
    /\ Len(workers) = 1
    /\ workers[1].current_lat = Far[1]
    /\ workers[1].current_lng = Far[2]
    /\ Len(scores) = 1
    /\ scores[1].proximity_score = 500
    /\ scores[1].travel_time_minutes = 300

\* C8: an available, active worker at a known distance d <= 100 km is scored
\* with proximity 1 - d/100 (returned to 3 decimals), within [0, 1] and
\* non-increasing in d; at exactly 100 km it is still scored, with
\* proximity 0.
C8_ProximityFormula ==
    Returned =>
        /\ \A i \in 1..Len(workers) :
              ( /\ PositionsKnown(workers[i])
                /\ DistanceTo(workers[i]) <= 100 * 1000
                /\ workers[i].availability_status = "available"
                /\ workers[i].active )
              => /\ Cardinality(ScoresOf(i)) = 1
                 /\ \A k \in ScoresOf(i) :
                       \* 1000 * (1 - d / 100 km) = (100000 - d) / 100
                       /\ 2 * Abs(100 * scores[k].proximity_score
                                  - (100 * 1000 - DistanceTo(workers[i]))) <= 100
                       /\ scores[k].proximity_score \in 0..1000
                       /\ DistanceTo(workers[i]) = 100 * 1000
                              => scores[k].proximity_score = 0
        /\ \A k, l \in 1..Len(scores) :
              ( /\ PositionsKnown(WorkerOf(scores[k]))
                /\ PositionsKnown(WorkerOf(scores[l]))
                /\ DistanceTo(WorkerOf(scores[k])) <= DistanceTo(WorkerOf(scores[l])) )
              => scores[k].proximity_score >= scores[l].proximity_score

\* A worker exactly 100.000 km from the ticket is scored, with proximity 0
C8_Witness ==
    /\ Returned
    /\ Len(workers) = 1
    /\ PositionsKnown(workers[1])
    /\ DistanceTo(workers[1]) = 100 * 1000
    /\ Len(scores) = 1
    /\ scores[1].proximity_score = 0
    /\ scores[1].travel_distance_km = 10000

\* 1000 * |R| * (0.40 skill + 0.30 proximity + 0.20 availability
\* + 0.10 performance) of worker w, from its attributes: skill =
\* SkillHundredths / (100 |R|) (1 when R is empty), proximity =
\* (100000 - d) / 100000 (1/2 when d is unknown), availability = 1,
\* performance = 0.6 rating / 5 + 0.4 fix rate = (6 rating + 20 rate) / 5000
\* with rating and rate in hundredths
OverallThousandR(w) ==
    LET R  == ticket.skills_required
        r  == IF R = {} THEN 1 ELSE Cardinality(R)
        sN == IF R = {} THEN 100 ELSE SkillHundredths(R, w)
        pN == IF PositionsKnown(w) THEN 100 * 1000 - DistanceTo(w)
              ELSE 50 * 1000
        fN == 6 * w.performance_rating + 20 * w.first_time_fix_rate
    IN  4000 * sN + 3 * r * pN + 200000 * r + 20 * r * fN

\* C9: every returned overall score is 0.40 skill + 0.30 proximity + 0.20
\* availability + 0.10 performance of that worker's own sub-scores (returned
\* to 3 decimals), with performance = 0.6 (rating / 5) + 0.4 fix rate; the
\* four weights sum to 1.0.
C9_OverallFormula ==
    /\ WeightSkillMatch + WeightProximity + WeightAvailability
         + WeightPerformance = 100
    /\ Returned =>
        \A k \in 1..Len(scores) :
            LET w == WorkerOf(scores[k])
                r == IF ticket.skills_required = {} THEN 1
                     ELSE Cardinality(ticket.skills_required)
            IN  /\ 2 * Abs(1000 * r * scores[k].overall_score
                           - OverallThousandR(w)) <= 1000 * r
                \* 1000 * performance = (6 rating + 20 rate) / 5
                /\ 2 * Abs(5 * scores[k].performance_score
                           - (6 * w.performance_rating
                              + 20 * w.first_time_fix_rate)) <= 5
                \* against the returned, rounded sub-scores: within 0.001
                /\ Abs(10 * scores[k].overall_score
                       - ( 4 * scores[k].skill_match_score
                         + 3 * scores[k].proximity_score
                         + 2 * scores[k].availability_score
                         + scores[k].performance_score )) <= 10

\* A Score none of whose sub-scores is 0, 1/2 or 1: skill 0.383, proximity
\* 0.968, performance 0.944
C9_Witness ==
    /\ Returned
    /\ Len(scores) = 1
    /\ scores[1].skill_match_score = 383
    /\ scores[1].proximity_score = 968
    /\ scores[1].performance_score = 944
    /\ scores[1].overall_score = 738

\* C10: for a rating in [0, 5] and a fix rate in [0, 1], every returned
\* skill_match_score, proximity_score, availability_score, performance_score
\* and overall_score lies within [0, 1].
C10_ScoresInUnitInterval ==
    Returned =>
        \A k \in 1..Len(scores) :
            LET w == WorkerOf(scores[k])
            IN  ( /\ w.performance_rating \in 0..500
                  /\ w.first_time_fix_rate \in 0..100 )
                => /\ scores[k].skill_match_score \in 0..1000
                   /\ scores[k].proximity_score \in 0..1000
                   /\ scores[k].availability_score \in 0..1000
                   /\ scores[k].performance_score \in 0..1000
                   /\ scores[k].overall_score \in 0..1000

\* Every sub-score at its upper end: an expert with all required skills
\* (1.15 before the clamp) at the ticket's position, rating 5.0, fix rate 1.0
C10_Witness ==
    /\ Returned
    /\ Len(scores) = 1
    /\ ticket.skills_required # {}
    /\ WorkerOf(scores[1]).skill_level = "expert"
    /\ WorkerOf(scores[1]).performance_rating = 500
    /\ scores[1].skill_match_score = 1000
    /\ scores[1].proximity_score = 1000
    /\ scores[1].performance_score = 1000
    /\ scores[1].overall_score = 1000

\* The worker with another daily cap
WithCap(w, c) == [w EXCEPT !.max_tickets_per_day = c]

\* Two workers that differ in id and max_tickets_per_day at most
SameButCap(v, w) == WithCap(v, 0) = [WithCap(w, 0) EXCEPT !.id = v.id]

\* C11: every returned availability_score is 1.0, and max_tickets_per_day
\* has no influence: two scored workers that differ only in their daily cap
\* get identical sub-scores, overall score, distance and time, and every
\* returned Score is the one the worker would get with a daily cap of 0.
C11_DailyCapIgnored ==
    Returned =>
        /\ \A k \in 1..Len(scores) : scores[k].availability_score = 1000
        /\ \A j, k \in 1..Len(scores) :
              SameButCap(WorkerOf(scores[j]), WorkerOf(scores[k]))
                => scores[j] = [scores[k] EXCEPT
                                   !.worker_id = scores[j].worker_id]
        /\ \A k \in 1..Len(scores) :
              ScoreWorker(ticket, WithCap(WorkerOf(scores[k]), 0))
                  = << scores[k] >>

\* Two scored workers alike but for the cap, 8 jobs a day and none, with the
\* same Score
C11_Witness ==
    /\ Returned
    /\ Len(scores) = 2
    /\ SameButCap(WorkerOf(scores[1]), WorkerOf(scores[2]))
    /\ WorkerOf(scores[1]).max_tickets_per_day = 8
    /\ WorkerOf(scores[2]).max_tickets_per_day = 0
    /\ scores[1].overall_score = scores[2].overall_score
    /\ scores[1].availability_score = 1000
    /\ scores[2].availability_score = 1000

\* The worker stands at the ticket's position, both known
AtTicket(w) ==
    /\ PositionsKnown(w)
    /\ w.current_lat = ticket.location_lat
    /\ w.current_lng = ticket.location_lng

\* C12: a returned Score of a worker whose known position is the ticket's
\* known position has travel_distance_km 0.0, proximity_score 1.0 and
\* travel_time_minutes 0.0; such a worker, available and active, is scored.
C12_SamePosition ==
    Returned =>
        /\ \A k \in 1..Len(scores) :
              AtTicket(WorkerOf(scores[k]))
                => /\ scores[k].travel_distance_km = 0
                   /\ scores[k].proximity_score = 1000
                   /\ scores[k].travel_time_minutes = 0
        /\ \A i \in 1..Len(workers) :
              ( /\ AtTicket(workers[i])
                /\ workers[i].availability_status = "available"
                /\ workers[i].active )
                => ScoresOf(i) # {}

\* A worker at the ticket's site, scored next to one 3 km away
C12_Witness ==
    /\ Returned
    /\ Len(scores) = 2
    /\ AtTicket(WorkerOf(scores[1]))
    /\ ~AtTicket(WorkerOf(scores[2]))
    /\ PositionsKnown(WorkerOf(scores[2]))
    /\ scores[1].travel_distance_km = 0
    /\ scores[1].proximity_score = 1000
    /\ scores[1].travel_time_minutes = 0
    /\ scores[2].travel_distance_km > 0

\* The worker of a returned Score holds every required skill, or none
FullMatch(sc) == ticket.skills_required \subseteq WorkerOf(sc).skills

NoMatch(sc) == ticket.skills_required \cap WorkerOf(sc).skills = {}

\* C13: for a non-empty required set, a worker holding all required skills
\* has skill score 1.0 at any level, one holding none of them has its level
\* bonus alone (at most 0.15), and of two such workers with equal proximity
\* and performance scores the fully matching one has the strictly higher
\* overall score and stands earlier in the returned list.
C13_FullMatchBeatsNoMatch ==
    (Returned /\ ticket.skills_required # {}) =>
        /\ \A k \in 1..Len(scores) :
              /\ FullMatch(scores[k]) => scores[k].skill_match_score = 1000
              /\ NoMatch(scores[k]) =>
                    /\ scores[k].skill_match_score
                         = 10 * BonusHundredths(WorkerOf(scores[k]).skill_level)
                    /\ scores[k].skill_match_score <= 150
        /\ \A j, k \in 1..Len(scores) :
              ( /\ FullMatch(scores[j])
                /\ NoMatch(scores[k])
                /\ scores[j].proximity_score = scores[k].proximity_score
                /\ scores[j].performance_score = scores[k].performance_score )
                => /\ j < k
                   /\ scores[j].overall_score > scores[k].overall_score

\* An expert without the required skill entered before an intermediate worker
\* holding it, same place and performance: skill 0.15 against 1.0, and the
\* call put the intermediate worker first
C13_Witness ==
    /\ Returned
    /\ Len(scores) = 2
    /\ ticket.skills_required # {}
    /\ FullMatch(scores[1])
    /\ NoMatch(scores[2])
    /\ WorkerOf(scores[1]).skill_level = "intermediate"
    /\ WorkerOf(scores[2]).skill_level = "expert"
    /\ scores[1].skill_match_score = 1000
    /\ scores[2].skill_match_score = 150
    /\ scores[1].proximity_score = scores[2].proximity_score
    /\ scores[1].performance_score = scores[2].performance_score
    /\ InputIndex(scores[1]) = 2
    /\ InputIndex(scores[2]) = 1

\* A call of optimize_route has been entered, has returned, has raised
RouteEntered == pc \in {"route_loop", "route_returned", "route_raised"}

RouteReturned == pc = "route_returned"

RouteRaised == pc = "route_raised"

\* A call of optimize_fleet_routes has been entered, has returned
FleetEntered == pc \in {"fleet_cluster", "fleet_returned"}

FleetReturned == pc = "fleet_returned"

\* C14: on empty input each operation returns an empty result and raises
\* nothing: rank_workers with no workers, or none scorable, returns the empty
\* list; optimize_route with no stops returns at once a route without stops
\* whose total_distance_km and total_time_minutes are 0.0;
\* optimize_fleet_routes with no workers or no tickets returns at once the
\* empty list.
C14_EmptyInEmptyOut ==
    /\ (Returned /\ \A i \in 1..Len(workers) : ~Scorable(workers[i]))
          => scores = << >>
    /\ (RouteEntered /\ job_locations = << >>)
          => /\ RouteReturned
             /\ error = << >>
             /\ Len(route) = 1
             /\ route[1].stops = << >>
             /\ route[1].total_distance_km = 0
             /\ route[1].total_time_minutes = 0
    /\ (FleetEntered /\ (fleet_workers = << >> \/ tickets = << >>))
          => /\ FleetReturned
             /\ routes = << >>

\* optimize_route returned for an empty list of stops
C14_Witness ==
    /\ RouteReturned
    /\ job_locations = << >>
    /\ route = << EmptyRoute >>

\* rank_workers returned the empty list for workers none of whom is scorable
C14_WitnessRank ==
    /\ Returned
    /\ Len(workers) = 3
    /\ scores = << >>

\* optimize_fleet_routes returned the empty list: workers without tickets,
\* tickets without workers
C14_WitnessFleetNoTickets ==
    FleetReturned /\ Len(fleet_workers) = 2 /\ tickets = << >> /\ routes = << >>

C14_WitnessFleetNoWorkers ==
    FleetReturned /\ fleet_workers = << >> /\ Len(tickets) = 3 /\ routes = << >>

\* Great-circle distance in metres between two known positions
Apart(p, q) == HaversineMetres(p[1], p[2], q[1], q[2])

\* Where the route stands when it chooses its k-th stop
PositionBefore(k) ==
    IF k = 1 THEN worker_location
    ELSE PositionOf(job_locations[ordered[k - 1]])

\* The stops not visited in steps 1..k-1
UnvisitedBefore(k) ==
    DOMAIN job_locations \ {ordered[j] : j \in 1..(k - 1)}

\* C15: at every point of optimize_route, the k-th stop of the order found
\* so far is, among the stops not visited in steps 1..k-1, at minimum
\* distance from the position of step k (the start for k = 1, else the
\* (k-1)-th visited stop), and has the lowest input index of those at that
\* minimum distance; the returned stops follow that order.
C15_NearestUnvisitedFirst ==
    RouteEntered =>
        /\ \A k \in 1..Len(ordered) :
              /\ ordered[k] \in UnvisitedBefore(k)
              /\ \A i \in UnvisitedBefore(k) :
                    LET here   == PositionBefore(k)
                        chosen == Apart(here, PositionOf(job_locations[ordered[k]]))
                        other  == Apart(here, PositionOf(job_locations[i]))
                    IN  /\ chosen <= other
                        /\ chosen = other => ordered[k] <= i
        /\ RouteReturned =>
              /\ Len(route[1].stops) = Len(ordered)
              /\ \A k \in 1..Len(ordered) :
                    route[1].stops[k].ticket_id
                        = job_locations[ordered[k]].ticket_id

\* Three stops, the first of the input the farthest, the other two at one
\* site: the route went to the second, the third, then the first
C15_Witness ==
    /\ RouteReturned
    /\ ordered = <<2, 3, 1>>
    /\ PositionOf(job_locations[2]) = PositionOf(job_locations[3])
    /\ PositionOf(job_locations[1]) # PositionOf(job_locations[2])
    /\ worker_location # PositionOf(job_locations[2])
    /\ route[1].stops[1].ticket_id = job_locations[2].ticket_id
    /\ route[1].stops[3].ticket_id = job_locations[1].ticket_id

\* Both coordinates of the job are there and are numbers
PositionPresent(job) ==
    /\ job.location_lat \notin {None, Absent}
    /\ job.location_lng \notin {None, Absent}

\* The returned RouteStops that carry the ticket of input stop i
StopsOf(i) ==
    {k \in 1..Len(route[1].stops) :
        route[1].stops[k].ticket_id = job_locations[i].ticket_id}

\* C16: for a non-empty list of n stops whose positions are present,
\* optimize_route returns (and does not raise) exactly n RouteStops, a
\* permutation of the input: each input stop, duplicates at one position
\* included, is exactly one RouteStop with its own position, address and
\* ticket_id; the order fields are 1, 2, ..., n in sequence.
C16_StopsArePermutation ==
    /\ RouteRaised => \E i \in DOMAIN job_locations :
                          ~PositionPresent(job_locations[i])
    /\ (RouteReturned /\ job_locations # << >>) =>
          LET stops == route[1].stops
          IN  /\ Len(stops) = Len(job_locations)
              /\ \A i \in DOMAIN job_locations :
                    /\ Cardinality(StopsOf(i)) = 1
                    /\ \A k \in StopsOf(i) :
                          /\ stops[k].location_lat = job_locations[i].location_lat
                          /\ stops[k].location_lng = job_locations[i].location_lng
                          /\ stops[k].location_address
                               = job_locations[i].location_address
              /\ \A k \in DOMAIN stops : stops[k].order = k

\* Three stops, the first and the third at one site, returned in another
\* order than they came in
C16_Witness ==
    /\ RouteReturned
    /\ Len(job_locations) = 3
    /\ PositionOf(job_locations[1]) = PositionOf(job_locations[3])
    /\ PositionOf(job_locations[1]) # PositionOf(job_locations[2])
    /\ Len(route[1].stops) = 3
    /\ route[1].stops[1].ticket_id = job_locations[2].ticket_id
    /\ route[1].stops[2].ticket_id = job_locations[1].ticket_id
    /\ route[1].stops[3].ticket_id = job_locations[3].ticket_id
    /\ route[1].stops[3].order = 3

\* Where the returned route is after its k-th stop (its start for k = 0)
RoutePosition(k) ==
    IF k = 0 THEN worker_location
    ELSE <<route[1].stops[k].location_lat, route[1].stops[k].location_lng>>

RECURSIVE MetresTo(_)
\* The metres travelled from the start to the k-th returned stop
MetresTo(k) ==
    IF k = 0 THEN 0
    ELSE MetresTo(k - 1) + Apart(RoutePosition(k - 1), RoutePosition(k))

RECURSIVE LegFieldsTo(_)
\* The sum of distance_from_previous_km of the first k returned stops
LegFieldsTo(k) ==
    IF k = 0 THEN 0
    ELSE LegFieldsTo(k - 1) + route[1].stops[k].distance_from_previous_km

\* C17: the totals of a returned route are the final cumulative values:
\* total_time_minutes is the estimated_arrival_minutes of the last stop;
\* each stop's estimated_arrival_minutes is the travel time at 40 km/h
\* (1.5 minutes per km) over all legs from the start to that stop, to one
\* decimal; total_distance_km is the sum of the leg distances along the
\* returned order, to two decimals, and so within 0.005 km per stop of the
\* sum of the returned distance_from_previous_km.
C17_TotalsAreCumulative ==
    (RouteReturned /\ job_locations # << >>) =>
        LET stops == route[1].stops
            n     == Len(stops)
        IN  /\ route[1].total_time_minutes = stops[n].estimated_arrival_minutes
            /\ \A k \in 1..n :
                  \* tenths of a minute: 10 * 60 * metres / (40 * 1000)
                  /\ 2 * Abs(200 * stops[k].estimated_arrival_minutes
                             - 3 * MetresTo(k)) <= 200
                  /\ 2 * Abs(10 * stops[k].distance_from_previous_km
                             - (MetresTo(k) - MetresTo(k - 1))) <= 10
            /\ 2 * Abs(10 * route[1].total_distance_km - MetresTo(n)) <= 10
            /\ 2 * Abs(route[1].total_distance_km - LegFieldsTo(n)) <= n

\* Three stops at three sites away from the start: arrival times grow from
\* stop to stop and the totals are those of the last stop
C17_Witness ==
    /\ RouteReturned
    /\ Len(route[1].stops) = 3
    /\ \A k \in 1..3 : route[1].stops[k].distance_from_previous_km > 0
    /\ route[1].stops[1].estimated_arrival_minutes
         < route[1].stops[2].estimated_arrival_minutes
    /\ route[1].stops[2].estimated_arrival_minutes
         < route[1].stops[3].estimated_arrival_minutes
    /\ route[1].total_time_minutes
         = route[1].stops[3].estimated_arrival_minutes
    /\ route[1].total_distance_km > route[1].stops[3].distance_from_previous_km
    /\ route[1].total_distance_km # LegFieldsTo(3)

\* The coordinate fields of a job that are None or not there
MissingFields(job) ==
    {f \in {"location_lat", "location_lng"} :
        job[f] \in {None, Absent}}

SomePositionMissing ==
    \E i \in DOMAIN job_locations : MissingFields(job_locations[i]) # {}

\* C18: given a stop whose latitude or longitude is missing, optimize_route
\* returns no route, visits no stop and puts no position in the place of the
\* missing one, and the error it raises names a missing field of a stop.
C18_MissingPositionRejectedByName ==
    (RouteEntered /\ SomePositionMissing) =>
        /\ ~RouteReturned
        /\ route = << >>
        /\ ordered = << >>
        /\ current = worker_location
        /\ RouteRaised =>
              \E i \in DOMAIN job_locations :
                  error[1].message \in MissingFields(job_locations[i])

\* What of C18 the code keeps: no route comes back, and a key that is not
\* there is named by the KeyError
C18_NoRouteFromMissingPosition ==
    (RouteEntered /\ SomePositionMissing) =>
        /\ ~RouteReturned
        /\ route = << >>
        /\ ordered = << >>
        /\ RouteRaised =>
              \/ /\ error[1].exception = "KeyError"
                 /\ \E i \in DOMAIN job_locations :
                        job_locations[i][error[1].message] = Absent
              \/ /\ error[1].exception = "TypeError"
                 /\ \E i \in DOMAIN job_locations :
                        None \in {job_locations[i].location_lat,
                                  job_locations[i].location_lng}

\* A stop whose latitude is None, after a stop with a position: the call
\* raised a TypeError that names no field
C18_TypeErrorReached ==
    /\ RouteRaised
    /\ Len(job_locations) = 2
    /\ PositionPresent(job_locations[1])
    /\ job_locations[2].location_lat = None
    /\ error = TypeError

\* The places <<r, k>> of the returned routes that hold the i-th ticket
PlacesOfTicket(i) ==
    {rk \in {<<r, k>> : r \in DOMAIN routes, k \in DOMAIN tickets} :
        /\ rk[2] <= Len(routes[rk[1]].stops)
        /\ routes[rk[1]].stops[rk[2]].ticket_id = tickets[i].ticket_id}

RECURSIVE StopsInRoutes(_)
\* The number of stops of the first r returned routes
StopsInRoutes(r) ==
    IF r = 0 THEN 0 ELSE StopsInRoutes(r - 1) + Len(routes[r].stops)

\* The workers whose job list holds the i-th ticket while clustering
HoldersOfTicket(i) ==
    {id \in DOMAIN worker_jobs :
        \E k \in DOMAIN worker_jobs[id] :
            worker_jobs[id][k].ticket_id = tickets[i].ticket_id}

\* C19: for non-empty workers and tickets, optimize_fleet_routes gives every
\* ticket to exactly one worker: while clustering, each ticket handled so
\* far is in exactly one worker's job list, once; each input ticket is a stop
\* of exactly one returned route, once, and the stops of all returned routes
\* number as many as the input tickets.
C19_EveryTicketInOneRoute ==
    (FleetEntered /\ fleet_workers # << >> /\ tickets # << >>) =>
        /\ \A i \in 1..(next_ticket - 1) :
              /\ Cardinality(HoldersOfTicket(i)) = 1
              /\ \A id \in HoldersOfTicket(i) :
                    Cardinality({k \in DOMAIN worker_jobs[id] :
                        worker_jobs[id][k].ticket_id = tickets[i].ticket_id}) = 1
        /\ FleetReturned =>
              /\ next_ticket = Len(tickets) + 1
              /\ \A i \in DOMAIN tickets : Cardinality(PlacesOfTicket(i)) = 1
              /\ StopsInRoutes(Len(routes)) = Len(tickets)

\* Two workers and three tickets: two routes came back, of two stops and one
C19_Witness ==
    /\ FleetReturned
    /\ Len(fleet_workers) = 2
    /\ Len(tickets) = 3
    /\ Len(routes) = 2
    /\ Len(routes[1].stops) = 2
    /\ Len(routes[2].stops) = 1
    /\ \A i \in 1..3 : Cardinality(PlacesOfTicket(i)) = 1

\* Metres from the v-th input worker to the i-th ticket
WorkerToTicket(v, i) ==
    Apart(<<fleet_workers[v].current_lat, fleet_workers[v].current_lng>>,
          PositionOf(tickets[i]))

\* The v-th input worker is a nearest one to the i-th ticket, and the first
\* of the nearest in the input list
FirstNearest(v, i) ==
    \A u \in DOMAIN fleet_workers :
        /\ WorkerToTicket(v, i) <= WorkerToTicket(u, i)
        /\ WorkerToTicket(v, i) = WorkerToTicket(u, i) => v <= u

\* C20: optimize_fleet_routes puts each ticket in the job list, and then in
\* the route, of a worker at minimum distance from the ticket among all
\* input workers, the first of them in the input list when several are at
\* that distance.
C20_TicketToFirstNearestWorker ==
    (FleetEntered /\ fleet_workers # << >> /\ tickets # << >>) =>
        /\ \A i \in 1..(next_ticket - 1) :
              \A v \in DOMAIN fleet_workers :
                  fleet_workers[v].id \in HoldersOfTicket(i)
                      => FirstNearest(v, i)
        /\ FleetReturned =>
              \A i \in DOMAIN tickets :
                  \A rk \in PlacesOfTicket(i) :
                      \E v \in DOMAIN fleet_workers :
                          /\ fleet_workers[v].id = routes[rk[1]].worker_id
                          /\ FirstNearest(v, i)

\* Two workers apart, three tickets: the first ticket is nearer to the second
\* worker and is in its route, the others are in the first worker's route
C20_Witness ==
    /\ FleetReturned
    /\ Len(fleet_workers) = 2
    /\ Len(tickets) = 3
    /\ WorkerToTicket(2, 1) < WorkerToTicket(1, 1)
    /\ WorkerToTicket(1, 2) < WorkerToTicket(2, 2)
    /\ Len(routes) = 2
    /\ routes[1].worker_id = fleet_workers[1].id
    /\ routes[2].worker_id = fleet_workers[2].id
    /\ PlacesOfTicket(1) = {<<2, 1>>}
    /\ Len(routes[1].stops) = 2

\* Two workers at one position: every ticket went to the first
C20_WitnessTie ==
    /\ FleetReturned
    /\ Len(fleet_workers) = 2
    /\ Len(tickets) = 2
    /\ WorkerToTicket(1, 1) = WorkerToTicket(2, 1)
    /\ Len(routes) = 1
    /\ routes[1].worker_id = fleet_workers[1].id
    /\ Len(routes[1].stops) = 2

\* The input index of the worker whose id the r-th returned route carries
\* (0 if there is none)
OwnerOf(r) ==
    IF \E v \in DOMAIN fleet_workers : fleet_workers[v].id = routes[r].worker_id
    THEN CHOOSE v \in DOMAIN fleet_workers :
             fleet_workers[v].id = routes[r].worker_id
    ELSE 0

\* C21: for non-empty workers and tickets, optimize_fleet_routes returns one
\* route per worker to whom a ticket is nearest and none for any other:
\* every returned route has at least one stop and carries the id of an input
\* worker, no id is carried by two routes, the workers that have a route are
\* exactly those that are the first nearest worker of some ticket (so the
\* routes number as many as those workers and none is an empty route), and
\* the routes come in the input order of their workers.
C21_OneRoutePerWorkerWithTickets ==
    (FleetReturned /\ fleet_workers # << >> /\ tickets # << >>) =>
        /\ \A r \in DOMAIN routes :
              /\ Len(routes[r].stops) >= 1
              /\ OwnerOf(r) # 0
        /\ \A r, s \in DOMAIN routes :
              r < s => OwnerOf(r) < OwnerOf(s)
        /\ \A v \in DOMAIN fleet_workers :
              (\E r \in DOMAIN routes : OwnerOf(r) = v)
                  <=> (\E i \in DOMAIN tickets : FirstNearest(v, i))
        /\ Len(routes) = Cardinality({v \in DOMAIN fleet_workers :
                             \E i \in DOMAIN tickets : FirstNearest(v, i)})

\* Two workers and two tickets, both nearer to the second worker: one route
\* came back, the second worker's, and nothing for the first
C21_Witness ==
    /\ FleetReturned
    /\ Len(fleet_workers) = 2
    /\ Len(tickets) = 2
    /\ \A i \in 1..2 : WorkerToTicket(2, i) < WorkerToTicket(1, i)
    /\ Len(routes) = 1
    /\ routes[1].worker_id = fleet_workers[2].id
    /\ Len(routes[1].stops) = 2

\* Two workers with tickets each: the routes are in the workers' order
C21_WitnessOrder ==
    /\ FleetReturned
    /\ Len(fleet_workers) = 2
    /\ Len(routes) = 2
    /\ OwnerOf(1) = 1
    /\ OwnerOf(2) = 2

\* The tickets whose first nearest worker is the v-th, in input order
ClusterOf(v) ==
    LET idx == SelectSeq([i \in DOMAIN tickets |-> i],
                         LAMBDA i : FirstNearest(v, i))
    IN  [k \in DOMAIN idx |-> tickets[idx[k]]]

\* The positions of all stops are present
AllPositionsPresent ==
    \A i \in DOMAIN job_locations : PositionPresent(job_locations[i])

\* C22: each route optimize_fleet_routes returns is, but for its worker_id,
\* what optimize_route returns for the owning worker's current position as
\* start and that worker's cluster (the tickets nearest to it, in input
\* order) as stops; and what a call of optimize_route returns, step by step,
\* for stops with positions is that same result, with no worker_id.
C22_FleetRouteIsSingleRoute ==
    /\ (FleetReturned /\ fleet_workers # << >> /\ tickets # << >>) =>
          \A r \in DOMAIN routes :
              /\ OwnerOf(r) # 0
              /\ [routes[r] EXCEPT !.worker_id = None]
                   = OptimizeRoute(
                         <<fleet_workers[OwnerOf(r)].current_lat,
                           fleet_workers[OwnerOf(r)].current_lng>>,
                         ClusterOf(OwnerOf(r)))
    /\ (RouteReturned /\ AllPositionsPresent) =>
          route = << OptimizeRoute(worker_location, job_locations) >>

\* Two workers, three tickets, the second and third at one site and in the
\* first worker's cluster: its route visits them in input order
C22_Witness ==
    /\ FleetReturned
    /\ Len(fleet_workers) = 2
    /\ Len(tickets) = 3
    /\ Len(routes) = 2
    /\ PositionOf(tickets[2]) = PositionOf(tickets[3])
    /\ Len(ClusterOf(1)) = 2
    /\ ClusterOf(1)[1] = tickets[2]
    /\ routes[1].stops[1].ticket_id = tickets[2].ticket_id
    /\ routes[1].stops[2].ticket_id = tickets[3].ticket_id
    /\ routes[1].worker_id = fleet_workers[1].id

\* optimize_route itself returned a route of three stops
C22_WitnessRoute ==
    /\ RouteReturned
    /\ Len(job_locations) = 3
    /\ route[1].worker_id = None
    /\ Len(route[1].stops) = 3

\* What optimize_route does on its own: the route, or the error of the first
\* stop of the input whose position cannot be read
RouteAlone(start, job_locs) ==
    IF job_locs = << >> THEN << EmptyRoute >>
    ELSE IF ScanRaises(job_locs, [i \in 1..Len(job_locs) |-> i], 1) # << >>
         THEN ScanRaises(job_locs, [i \in 1..Len(job_locs) |-> i], 1)
         ELSE << OptimizeRoute(start, job_locs) >>

\* What the call k returns when no other call runs
Alone(k) ==
    CASE k.op = "rank_workers"
           -> << RankWorkersResult(k.args[1], k.args[2]) >>
      [] k.op = "optimize_route"
           -> RouteAlone(k.args[1], k.args[2])
      [] k.op = "optimize_fleet_routes"
           -> << OptimizeFleetRoutes(k.args[1], k.args[2]) >>
      [] k.op = "calculate_eta"
           -> << CalculateEta(k.args[1][1], k.args[1][2],
                              k.args[2][1], k.args[2][2]) >>

CallDone(c) == calls[c].pc \in {"returned", "raised"}

\* C23: however the steps of concurrent calls of rank_workers,
\* optimize_route, optimize_fleet_routes and calculate_eta on the singleton
\* services interleave, every call that has ended has returned (or raised)
\* what it returns when run alone on its arguments, and the singletons carry
\* no attribute a call has written: there is nothing to lock.
C23_ConcurrentCallsIndependent ==
    pc = "concurrent" =>
        /\ singletons = NoAttributes
        /\ \A c \in Callers :
              /\ CallDone(c) => calls[c].result = Alone(calls[c])
              /\ calls[c].pc = "raised" <=>
                    (CallDone(c) /\ calls[c].op = "optimize_route"
                       /\ \E i \in DOMAIN calls[c].args[2] :
                              ~PositionPresent(calls[c].args[2][i]))

\* Two calls of optimize_route on different stops were both in their loops
\* with a stop visited each, and both have returned
C23_Witness ==
    /\ pc = "concurrent"
    /\ calls[1].op = "optimize_route"
    /\ calls[2].op = "optimize_route"
    /\ calls[1].args # calls[2].args
    /\ calls[1].pc = "returned"
    /\ calls[2].pc = "returned"
    /\ Len(calls[1].result[1].stops) = 3
    /\ Len(calls[2].result[1].stops) = 2

\* Two calls in the middle of their loops at the same time
C23_WitnessInterleaved ==
    /\ pc = "concurrent"
    /\ calls[1].op = "optimize_route"
    /\ calls[2].op = "rank_workers"
    /\ calls[1].pc = "loop"
    /\ calls[2].pc = "loop"
    /\ Len(calls[1].locals.ordered) = 1
    /\ calls[2].locals.next = 2

\* A step leaves the arguments of every call and the singletons as they were
InputsUnchanged ==
    /\ ticket' = ticket
    /\ workers' = workers
    /\ worker_location' = worker_location
    /\ job_locations' = job_locations
    /\ fleet_workers' = fleet_workers
    /\ tickets' = tickets
    /\ singletons' = singletons
    /\ DOMAIN calls' = DOMAIN calls
    /\ \A c \in DOMAIN calls :
          /\ calls'[c].op = calls[c].op
          /\ calls'[c].args = calls[c].args

\* Two calls of one operation with equal arguments that have both ended have
\* ended alike
TwiceTheSame ==
    \A c, d \in DOMAIN calls :
        (/\ calls[c].op = calls[d].op
         /\ calls[c].args = calls[d].args
         /\ CallDone(c)
         /\ CallDone(d))
            => /\ calls[c].pc = calls[d].pc
               /\ calls[c].result = calls[d].result

\* C24: the engines treat their inputs as read-only and keep no state
\* between calls: no step of rank_workers changes the ticket or a worker, no
\* step of optimize_route changes the start position or the list of stops
\* (contents and order), no step of optimize_fleet_routes changes the lists
\* of workers and tickets, no step writes an attribute of a singleton; and
\* two calls of one operation with equal inputs return equal results.
C24_InputsReadOnlyNoState ==
    /\ []TwiceTheSame
    /\ [][InputsUnchanged]_vars

\* optimize_route was called twice with the same three stops and returned
\* twice
C24_Witness ==
    /\ pc = "concurrent"
    /\ calls[1].op = "optimize_route"
    /\ calls[1] = calls[2]
    /\ calls[1].pc = "returned"
    /\ Len(calls[1].result[1].stops) = 3

\* optimize_route returned a route that visits its three stops in another
\* order than the input's, which is as it was
C24_WitnessOrder ==
    /\ pc = "concurrent"
    /\ calls[1].op = "optimize_route"
    /\ calls[1].pc = "returned"
    /\ Len(calls[1].args[2]) = 3
    /\ calls[1].locals.ordered # <<1, 2, 3>>
    /\ \A i \in 1..3 : calls[1].args[2][i].ticket_id = 100 + i

\* The speed a travel-time call runs at: the one given, else the default of
\* 40 km/h (also the routing service's AVG_SPEED_KMH)
SpeedOf(k) == IF Len(k.args) = 2 THEN k.args[2].n ELSE 40

\* C25: the travel-time primitive returns distance / speed x 60 minutes for
\* every distance when the speed is above 0, and 0 when the speed is 0 or
\* below; it never returns a negative time for a distance of 0 or more; at
\* the default speed of 40 km/h, and in the routing service, the result is
\* distance x 1.5.
C25_TravelTime ==
    (pc = "travel" /\ calls[1].pc = "returned") =>
        LET x == calls[1].args[1]
            v == SpeedOf(calls[1])
            r == calls[1].result[1]
        IN  /\ v > 0 => r.n * x.d * v = 60 * x.n * r.d
            /\ v <= 0 => r.n = 0
            /\ x.n >= 0 => r.n >= 0
            /\ v = 40 => 2 * r.n * x.d = 3 * x.n * r.d
            /\ r.d > 0

\* 7.5 km at 25 km/h took 18 minutes
C25_Witness ==
    /\ pc = "travel"
    /\ calls[1].op = "estimate_travel_time_minutes"
    /\ calls[1].pc = "returned"
    /\ calls[1].args = << Rat(15, 2), Rat(25, 1) >>
    /\ calls[1].result = << Rat(18, 1) >>

\* At speed 0 the time of 7.5 km is 0
C25_WitnessNoSpeed ==
    /\ pc = "travel"
    /\ calls[1].pc = "returned"
    /\ calls[1].args = << Rat(15, 2), Rat(0, 1) >>
    /\ calls[1].result = << Rat(0, 1) >>

\* The routing service takes 15 minutes for 10 km
C25_WitnessDefault ==
    /\ pc = "travel"
    /\ calls[1].op = "_travel_minutes"
    /\ calls[1].pc = "returned"
    /\ calls[1].args = << Rat(10, 1) >>
    /\ calls[1].result = << Rat(15, 1) >>

\* The two positions of the pair
PairFrom == calls[1].args[1]

PairTo == calls[1].args[2]

\* C26: for one pair of known positions the three operations agree:
\* calculate_eta(from, to) returns the distance_km and eta_minutes that
\* optimize_route(from, [to]) returns as distance_from_previous_km and
\* estimated_arrival_minutes of its first stop (and as its totals), and, when
\* the positions are no more than 100 km apart, rank_workers returns them as
\* travel_distance_km and travel_time_minutes of the Score of a worker at
\* from for a ticket at to; beyond 100 km rank_workers returns no Score.
C26_ThreePlacesAgree ==
    (pc = "pair" /\ \A c \in 1..3 : calls[c].pc = "returned") =>
        LET eta    == calls[1].result[1]
            r      == calls[2].result[1]
            ranked == calls[3].result[1]
        IN  /\ Len(r.stops) = 1
            /\ r.stops[1].distance_from_previous_km = eta.distance_km
            /\ r.stops[1].estimated_arrival_minutes = eta.eta_minutes
            /\ r.total_distance_km = eta.distance_km
            /\ r.total_time_minutes = eta.eta_minutes
            /\ IF Apart(PairFrom, PairTo) <= 100000
               THEN /\ Len(ranked) = 1
                    /\ ranked[1].travel_distance_km = eta.distance_km
                    /\ ranked[1].travel_time_minutes = eta.eta_minutes
               ELSE ranked = << >>

\* From the worker north of the site to the medical centre: the three
\* returned one distance above 0 and one time above 0
C26_Witness ==
    /\ pc = "pair"
    /\ \A c \in 1..3 : calls[c].pc = "returned"
    /\ PairFrom = Near
    /\ PairTo = Medical
    /\ calls[1].result[1].distance_km > 0
    /\ calls[1].result[1].eta_minutes > 0
    /\ calls[3].result[1][1].travel_distance_km
         = calls[1].result[1].distance_km
    /\ calls[2].result[1].stops[1].estimated_arrival_minutes
         = calls[3].result[1][1].travel_time_minutes

\* A pair more than 100 km apart: an eta and a route, but no Score
C26_WitnessFar ==
    /\ pc = "pair"
    /\ \A c \in 1..3 : calls[c].pc = "returned"
    /\ PairFrom = Far
    /\ PairTo = Site
    /\ calls[3].result[1] = << >>
    /\ calls[1].result[1].distance_km > 10000

\* The worker_id of the route that holds ticket tk among the routes rs (None
\* if no route holds it)
RouteOwner(rs, tk) ==
    IF \E r \in DOMAIN rs : \E k \in DOMAIN rs[r].stops :
           rs[r].stops[k].ticket_id = tk.ticket_id
    THEN rs[CHOOSE r \in DOMAIN rs : \E k \in DOMAIN rs[r].stops :
                rs[r].stops[k].ticket_id = tk.ticket_id].worker_id
    ELSE None

\* The tickets without the i-th; the tickets in reverse order
WithoutTicket(i) ==
    [k \in 1..(Len(tickets) - 1) |-> IF k < i THEN tickets[k] ELSE tickets[k + 1]]

TicketsReversed == [k \in DOMAIN tickets |-> tickets[Len(tickets) + 1 - k]]

\* C27: the worker optimize_fleet_routes gives a ticket to depends on the
\* position of that ticket and on the positions and order of the workers
\* only: it is the worker the ticket gets when it is the only ticket, when
\* any one other ticket is left out and when the tickets come in reverse
\* order; and nothing caps a worker's share: each route has as many stops as
\* there are tickets whose first nearest worker is its owner.
C27_SinglePassNoRebalancing ==
    (FleetReturned /\ fleet_workers # << >> /\ tickets # << >>) =>
        /\ routes = OptimizeFleetRoutes(fleet_workers, tickets)
        /\ \A i \in DOMAIN tickets :
              /\ RouteOwner(routes, tickets[i]) # None
              /\ RouteOwner(routes, tickets[i])
                   = RouteOwner(OptimizeFleetRoutes(fleet_workers,
                                                    << tickets[i] >>),
                                tickets[i])
        /\ \A reversed \in {OptimizeFleetRoutes(fleet_workers, TicketsReversed)} :
              \A i \in DOMAIN tickets :
                 RouteOwner(routes, tickets[i]) = RouteOwner(reversed, tickets[i])
        /\ \A j \in DOMAIN tickets :
              \A without \in {OptimizeFleetRoutes(fleet_workers, WithoutTicket(j))} :
                 \A i \in DOMAIN tickets \ {j} :
                    RouteOwner(routes, tickets[i])
                      = RouteOwner(without, tickets[i])
        /\ \A r \in DOMAIN routes :
              Len(routes[r].stops)
                = Cardinality({i \in DOMAIN tickets :
                                  FirstNearest(OwnerOf(r), i)})

\* Two workers apart and three tickets, all nearest to the first worker: it
\* has the three of them and the second worker has no route
C27_Witness ==
    /\ FleetReturned
    /\ Len(fleet_workers) = 2
    /\ Len(tickets) = MaxTickets
    /\ fleet_workers[1].current_lat # fleet_workers[2].current_lat
    /\ Len(routes) = 1
    /\ routes[1].worker_id = fleet_workers[1].id
    /\ Len(routes[1].stops) = MaxTickets

\* The indices held by a list of indices
IndicesOf(s) == {s[k] : k \in DOMAIN s}

\* The while loop of a call on stops with positions is at the top of a round:
\* as many rounds have been run as ordered has indices
InRounds == pc = "route_loop" /\ AllPositionsPresent

\* During the rounds every index of the input is in exactly one of unvisited
\* and ordered, once
RoundsPartition ==
    InRounds =>
        /\ Len(unvisited) + Len(ordered) = Len(job_locations)
        /\ IndicesOf(unvisited) \cup IndicesOf(ordered) = DOMAIN job_locations
        /\ IndicesOf(unvisited) \cap IndicesOf(ordered) = {}
        /\ Cardinality(IndicesOf(ordered)) = Len(ordered)

\* A step from the top of a round either runs one round, which moves exactly
\* one index from unvisited to the end of ordered, or leaves the loop, which
\* it does when unvisited is empty and only then, after exactly n rounds
RoundStep ==
    InRounds =>
        \/ /\ unvisited # << >>
           /\ pc' = "route_loop"
           /\ \E idx \in IndicesOf(unvisited) :
                 /\ unvisited' = Remove(unvisited, idx)
                 /\ ordered' = Append(ordered, idx)
        \/ /\ unvisited = << >>
           /\ Len(ordered) = Len(job_locations)
           /\ pc' = "route_returned"
           /\ UNCHANGED <<unvisited, ordered>>

\* C28: a call of optimize_route on n stops with positions present ends: its
\* while loop runs exactly n rounds, each round takes exactly one index out
\* of unvisited and appends it to ordered, the loop is left exactly when
\* unvisited is empty, and the call returns.
C28_RouteTerminates ==
    /\ []RoundsPartition
    /\ [][RoundStep]_vars
    /\ (pc = "route_call" /\ AllPositionsPresent) ~> RouteReturned

\* A call on MaxStops stops with positions has returned after MaxStops rounds
C28_Witness ==
    /\ RouteReturned
    /\ AllPositionsPresent
    /\ Len(job_locations) = MaxStops
    /\ Len(ordered) = MaxStops
    /\ unvisited = << >>

\* The loop is in its last round: one index is left
C28_WitnessLastRound ==
    /\ InRounds
    /\ Len(job_locations) = MaxStops
    /\ Len(unvisited) = 1

(***************************************************************************)
(* Properties of the assignment workflow                                   *)
(***************************************************************************)
\* The requests have been handled one after another
Serial == \A r \in DOMAIN requests : ~requests[r].overlapped

\* Request r is an auto_assign_ticket that has been committed and answered
\* with its assignment
AutoAssigned(r) ==
    /\ requests[r].op = "auto_assign_ticket"
    /\ requests[r].pc = "done"
    /\ requests[r].response[1].status_code = 201

\* Worker id is returned by rank_workers for some ticket over the available,
\* active workers of the database as it is now
Rankable(id) ==
    \E t \in DOMAIN db.tickets, found \in Orderings(AvailableWorkers(db)) :
       \E k \in DOMAIN RankWorkersResult(db.tickets[t], found) :
          RankWorkersResult(db.tickets[t], found)[k].worker_id = id

\* C29: when requests are handled one after another, an auto_assign_ticket
\* that has succeeded has given its ticket to the first of rank_workers over
\* the available, active workers, the ticket is no longer open or new, and
\* as long as the assignment it made is not completed its worker is not
\* returned by rank_workers (so no later auto-assign chooses that worker).
C29_AssignedWorkerBusyUntilCompleted ==
    Serial =>
        \A r \in DOMAIN requests :
            AutoAssigned(r) =>
                /\ requests[r].session.scores
                     = RankWorkersResult(requests[r].session.ticket,
                                         requests[r].session.workers)
                /\ requests[r].session.assignment.worker_id
                     = requests[r].session.scores[1].worker_id
                /\ db.tickets[requests[r].session.assignment.ticket_id].status
                     \notin {"open", "new"}
                /\ db.assignments[requests[r].session.assignment.id].status
                       # "completed"
                   => ~Rankable(requests[r].session.assignment.worker_id)

\* What of C29 holds under every interleaving: the commit of an
\* auto_assign_ticket writes the pending assignment of the ticket to the
\* first of the ranking that the request has computed, the ticket assigned
\* to that worker and that worker busy
C29_CommitAssignsTopRanked ==
    [][\A r \in DOMAIN requests :
          (/\ requests[r].op = "auto_assign_ticket"
           /\ requests[r].pc = "flushed"
           /\ requests'[r].pc = "done")
          => /\ requests[r].session.assignment.worker_id
                  = requests[r].session.scores[1].worker_id
             /\ requests[r].session.assignment.status = "pending"
             /\ db'.assignments[requests[r].session.assignment.id]
                  = requests[r].session.assignment
             /\ db'.tickets[requests[r].session.ticket.id].status = "assigned"
             /\ db'.tickets[requests[r].session.ticket.id].assigned_worker_id
                  = requests[r].session.assignment.worker_id
             /\ db'.workers[requests[r].session.assignment.worker_id]
                    .availability_status = "busy"]_vars

\* What of C29 holds under every interleaving: a busy worker becomes
\* available by the commit of an update_assignment that sets an assignment
\* of that worker to completed, and by nothing else
C29_FreedByCompletionOnly ==
    [][\A w \in DOMAIN db.workers :
          (/\ db.workers[w].availability_status = "busy"
           /\ db'.workers[w].availability_status = "available")
          => \E r \in DOMAIN requests :
                /\ requests[r].op = "update_assignment"
                /\ requests[r].args.status = "completed"
                /\ requests[r].pc = "flushed"
                /\ requests'[r].pc = "done"
                /\ requests[r].session.assignment.worker_id = w]_vars

\* The case C29 leaves out: with the requests handled one after another, a
\* worker is available again while the assignment an auto_assign_ticket made
\* for that worker is pending
C29_FreedWhileAssigned ==
    /\ Serial
    /\ \E r \in DOMAIN requests :
          /\ AutoAssigned(r)
          /\ db.assignments[requests[r].session.assignment.id].status = "pending"
          /\ db.workers[requests[r].session.assignment.worker_id]
                .availability_status = "available"

\* The requests are auto_assign_ticket requests for different tickets
AutoAssignsOfDifferentTickets ==
    /\ \A r \in DOMAIN requests : requests[r].op = "auto_assign_ticket"
    /\ \A r, q \in DOMAIN requests :
          r # q => requests[r].args.ticket_id # requests[q].args.ticket_id

\* The committed assignments of worker w that are not completed
OpenAssignmentsOf(w) ==
    {a \in DOMAIN db.assignments :
        /\ db.assignments[a].worker_id = w
        /\ db.assignments[a].status # "completed"}

NoDoubleBooking ==
    AutoAssignsOfDifferentTickets =>
        \A w \in DOMAIN db.workers : Cardinality(OpenAssignmentsOf(w)) <= 1

\* A step of an auto_assign_ticket that finds its ticket neither open nor new
\* answers 400 and changes no row
RejectedUnchanged ==
    \A r \in DOMAIN requests :
        (/\ requests[r].op = "auto_assign_ticket"
         /\ requests[r].pc = "received"
         /\ requests'[r].pc # "received"
         /\ requests[r].args.ticket_id \in DOMAIN db.tickets
         /\ db.tickets[requests[r].args.ticket_id].status \notin {"open", "new"})
        => /\ requests'[r].pc = "done"
           /\ requests'[r].response[1].status_code = 400
           /\ requests'[r].writes = << >>
           /\ db' = db

\* C30: under every interleaving of auto_assign_ticket requests for different
\* tickets no worker holds two assignments that are not completed, and an
\* auto_assign_ticket of a ticket that is neither open nor new is answered
\* 400 with no change of state.
C30_NoWorkerDoubleBooked ==
    /\ []NoDoubleBooking
    /\ [][RejectedUnchanged]_vars

\* What of C30 holds: the rejection of a ticket that is neither open nor new
C30_RejectedWithoutChange == [][RejectedUnchanged]_vars

\* The case C30 leaves out: two auto_assign_ticket requests for different
\* tickets have both been committed with the same worker, who holds two
\* pending assignments
C30_DoubleBooked ==
    /\ AutoAssignsOfDifferentTickets
    /\ \E r, q \in DOMAIN requests :
          /\ r # q
          /\ AutoAssigned(r)
          /\ AutoAssigned(q)
          /\ requests[r].session.assignment.worker_id
               = requests[q].session.assignment.worker_id
          /\ Cardinality(OpenAssignmentsOf(
                 requests[r].session.assignment.worker_id)) = 2

\* A ticket that is not open has been refused with 400
C30_RejectionReached ==
    \E r \in DOMAIN requests :
        /\ requests[r].op = "auto_assign_ticket"
        /\ requests[r].pc = "done"
        /\ requests[r].response[1].status_code = 400
        /\ db.tickets[requests[r].args.ticket_id].status = "completed"

====
